---- MODULE Spec2Model ----
(***************************************************************************)
(* The API-key credential subsystem of cipher: the SQLite-backed           *)
(* ApiKeyStore (src/app/api/services/api-key-store.ts) and the admin HTTP  *)
(* routes in front of it (src/app/api/routes/api-keys.ts).                 *)
(*                                                                         *)
(* Strings that the code inspects character by character (keys, prefixes,  *)
(* names) are sequences of one-character strings.  A column that is        *)
(* INTEGER-or-NULL holds an integer, NULL being the value below; clock     *)
(* values are positive, so NULL is never a timestamp.                      *)
(***************************************************************************)
EXTENDS Integers, Sequences, FiniteSets, TLC

VARIABLES
    api_keys,   \* the rows of table api_keys
    clock,      \* Date.now()
    issued,     \* how many keys (and ids) the random generators have handed out
    req,        \* the request being answered
    call,       \* the last call the handler made on the store, with its result
    res,        \* the response sent
    gate,       \* the middleware that ran on the request, with its decision
    proxy,      \* the reverse proxy: the request it forwarded last, and its tallies
    pending,    \* a validate that has looked its key up and not yet touched the row
    state,      \* the AuthState of the client's AuthProvider
    localStorage, \* the item "cipher-auth-key" of the browser: zero or one keys
    session     \* the provider's effect and its verification requests in flight

vars ==
    <<api_keys, clock, issued, req, call, res, gate, proxy, pending, state, localStorage,
      session>>

----------------------------------------------------------------------------
(* Bounds of the model *)

NumKeys == 2        \* keys the generator hands out in one run
NumInputKeys == 1   \* the same, in the runs that vary the request bodies
MaxClock == 3       \* the clock runs from 1 to MaxClock
MaxDraws == 3       \* draws of the generators in the runs where they may repeat

(* Program constants *)

RandomHexLen == 64      \* randomBytes(32).toString('hex')
PrefixLen == 10         \* key.substring(0, 10)
MaxNameLength == 100    \* name.length > 100
HashMod == 32749        \* range of the modelled digest

NULL == 0 - 1

----------------------------------------------------------------------------
(* Strings *)

KeyTag == <<"s", "k", "-">>
Ellipsis == <<".", ".", ".">>

Alphabet == <<"0", "1", "2", "3", "4", "5", "6", "7", "8", "9",
              "a", "b", "c", "d", "e", "f", "s", "k", "-", ".", " ">>

CharCode(c) == CHOOSE i \in 1..Len(Alphabet) : Alphabet[i] = c

substring(s, from, to) ==
    SubSeq(s, from + 1, IF to < Len(s) THEN to ELSE Len(s))

startsWith(s, p) == Len(s) >= Len(p) /\ SubSeq(s, 1, Len(p)) = p

includesStr(s, p) ==
    \E i \in 1..(Len(s) + 1) :
        i + Len(p) - 1 <= Len(s) /\ SubSeq(s, i, i + Len(p) - 1) = p

trim_Start(s) ==
    IF \A i \in 1..Len(s) : s[i] = " " THEN <<>>
    ELSE SubSeq(s,
             CHOOSE i \in 1..Len(s) : s[i] # " " /\ \A j \in 1..(i - 1) : s[j] = " ",
             Len(s))

\* String.prototype.trim: the text between the first and the last character
\* that is not white space.
trim(s) ==
    IF \A i \in 1..Len(s) : s[i] = " " THEN <<>>
    ELSE SubSeq(s,
             CHOOSE i \in 1..Len(s) : s[i] # " " /\ \A j \in 1..(i - 1) : s[j] = " ",
             CHOOSE i \in 1..Len(s) : s[i] # " " /\ \A j \in (i + 1)..Len(s) : s[j] = " ")

Repeat(c, n) == [i \in 1..n |-> c]

----------------------------------------------------------------------------
(* SecretCodec: generateKey, hashKey, randomUUID *)

HexDigit(n) == Alphabet[(n % 16) + 1]

\* The n-th output of randomBytes(32).toString('hex'): the generator is a
\* CSPRNG, so each call yields a value not handed out before.
randomHex(n) == Repeat(HexDigit(n), RandomHexLen)

\* `sk-${random}`, for each position of the generator, computed once.
KeyTable == [n \in 1..16 |-> KeyTag \o randomHex(n)]
generateKey_NoTag(n) == randomHex(n)

generateKey(n) == KeyTable[n]

\* The n-th output of randomUUID(), likewise fresh.
randomUUID(n) == n

RECURSIVE powMod(_, _)
powMod(b, e) ==
    IF e = 0 THEN 1
    ELSE LET h == powMod(b, e \div 2)
         IN  (((h * h) % HashMod) * (IF e % 2 = 1 THEN b ELSE 1)) % HashMod

\* The digest of s[lo..hi]: a polynomial in the character codes, so that every
\* character of the string enters the digest.
RECURSIVE digestOf(_, _, _)
digestOf(s, lo, hi) ==
    IF lo > hi THEN 0
    ELSE IF lo = hi THEN CharCode(s[lo])
    ELSE LET mid == (lo + hi) \div 2
         IN  (digestOf(s, lo, mid) * powMod(31, hi - mid) + digestOf(s, mid + 1, hi))
                 % HashMod

\* The keys the generator can hand out and one it never does, with their
\* digests computed once.
IssuableKeys == {generateKey(n) : n \in 1..NumKeys}
UnknownKey == generateKey(15)
PresentedKeys == IssuableKeys \cup {UnknownKey}
KnownDigests == [k \in PresentedKeys |-> digestOf(k, 1, Len(k))]

\* createHash('sha256').update(key).digest('hex')
hashKey(key) ==
    IF key \in PresentedKeys THEN KnownDigests[key] ELSE digestOf(key, 1, Len(key))

----------------------------------------------------------------------------
(* JavaScript values *)

\* `x` as a condition, `x || d`: null, undefined and 0 are falsy.
Truthy(n) == n # NULL /\ n # 0

OrNull(n) == IF Truthy(n) THEN n ELSE NULL

\* JSON.stringify / JSON.parse of a permissions array: the column holds text.
JSONstringify(a) == [json |-> a]
JSONparse(t) == t.json

DefaultPermissions_Read == <<"read">>

DefaultPermissions == <<"*">>

----------------------------------------------------------------------------
(* The prepared statements (ApiKeyStore.initialize) *)

stmtInsert_NoUnique(tbl, row) ==
    IF \E r \in tbl : r.id = row.id
    THEN [threw |-> TRUE, tbl |-> tbl]
    ELSE [threw |-> FALSE, tbl |-> tbl \cup {row}]

\* INSERT: id is the PRIMARY KEY, key_hash is UNIQUE, name is NOT NULL.
stmtInsert(tbl, row) ==
    IF \E r \in tbl : r.id = row.id \/ r.key_hash = row.key_hash
    THEN [threw |-> TRUE, tbl |-> tbl]
    ELSE [threw |-> FALSE, tbl |-> tbl \cup {row}]

stmtFindByHash_AnyRow(tbl, h) == {r \in tbl : r.key_hash = h}

stmtFindByHash(tbl, h) == {r \in tbl : r.key_hash = h /\ r.revoked = 0}

stmtFindById(tbl, id) == {r \in tbl : r.id = id}

OrderedDesc_Asc(rows) ==
    {s \in [1..Cardinality(rows) -> rows] :
        /\ \A i, j \in DOMAIN s : i # j => s[i] # s[j]
        /\ \A i, j \in DOMAIN s : i < j => s[i].created_at <= s[j].created_at}

\* ORDER BY created_at DESC; rows with equal created_at come in any order.
OrderedDesc(rows) ==
    {s \in [1..Cardinality(rows) -> rows] :
        /\ \A i, j \in DOMAIN s : i # j => s[i] # s[j]
        /\ \A i, j \in DOMAIN s : i < j => s[i].created_at >= s[j].created_at}

stmtListAll(tbl) == OrderedDesc(tbl)

stmtListActive_NeverExpiring(tbl) ==
    OrderedDesc({r \in tbl : r.revoked = 0 /\ r.expires_at = NULL})

stmtListActive_All(tbl) == OrderedDesc(tbl)

stmtListActive(tbl) == OrderedDesc({r \in tbl : r.revoked = 0})

stmtRevoke_OnlyActive(tbl, id) ==
    [tbl |-> {IF r.id = id THEN [r EXCEPT !.revoked = 1] ELSE r : r \in tbl},
     changes |-> Cardinality({r \in tbl : r.id = id /\ r.revoked = 0})]

stmtRevoke_Toggle(tbl, id) ==
    [tbl |-> {IF r.id = id THEN [r EXCEPT !.revoked = 1 - r.revoked] ELSE r : r \in tbl},
     changes |-> Cardinality({r \in tbl : r.id = id})]

\* An UPDATE or DELETE reports as `changes` the rows its WHERE clause matched.
stmtRevoke(tbl, id) ==
    [tbl |-> {IF r.id = id THEN [r EXCEPT !.revoked = 1] ELSE r : r \in tbl},
     changes |-> Cardinality({r \in tbl : r.id = id})]

stmtUpdateLastUsed(tbl, now, id) ==
    [tbl |-> {IF r.id = id THEN [r EXCEPT !.last_used_at = now] ELSE r : r \in tbl},
     changes |-> Cardinality({r \in tbl : r.id = id})]

stmtUpdateName_GrantsAll(tbl, name, id) ==
    [tbl |-> {IF r.id = id
              THEN [r EXCEPT !.name = name, !.permissions = JSONstringify(<<"*">>)]
              ELSE r : r \in tbl},
     changes |-> Cardinality({r \in tbl : r.id = id})]

stmtUpdateName_AllRows(tbl, name, id) ==
    [tbl |-> {[r EXCEPT !.name = name] : r \in tbl},
     changes |-> Cardinality(tbl)]

stmtUpdateName(tbl, name, id) ==
    [tbl |-> {IF r.id = id THEN [r EXCEPT !.name = name] ELSE r : r \in tbl},
     changes |-> Cardinality({r \in tbl : r.id = id})]

stmtDeleteKey(tbl, id) ==
    [tbl |-> {r \in tbl : r.id # id},
     changes |-> Cardinality({r \in tbl : r.id = id})]

stmtCount_All(tbl) == Cardinality(tbl)

stmtCount(tbl) == Cardinality({r \in tbl : r.revoked = 0})

----------------------------------------------------------------------------
(* ApiKeyStore *)

rowToRecord(row) ==
    [id |-> row.id,
     name |-> row.name,
     prefix |-> row.prefix,
     keyHash |-> row.key_hash,
     permissions |-> JSONparse(row.permissions),
     createdAt |-> row.created_at,
     lastUsedAt |-> row.last_used_at,
     expiresAt |-> row.expires_at,
     revoked |-> (row.revoked # 0)]

\* The first row of a result set, as a sequence of zero or one records.
FirstRecord(rows) ==
    IF rows = {} THEN <<>> ELSE <<rowToRecord(CHOOSE r \in rows : TRUE)>>

\* `input.permissions || ['*']`: an array, even an empty one, is truthy.
PermissionsOrDefault(p) == IF p.t = "array" THEN p.a ELSE DefaultPermissions

displayPrefix_Whole(key) == substring(key, 0, Len(key)) \o Ellipsis

displayPrefix(key) == substring(key, 0, PrefixLen) \o Ellipsis

\* create(input): k and u are the positions of randomBytes and of randomUUID,
\* now is Date.now().
createWith(tbl, input, k, u, now) ==
    LET key == generateKey(k)
        keyHash == hashKey(key)
        prefix == displayPrefix(key)
        id == randomUUID(u)
        ins == stmtInsert(tbl,
                   [id |-> id,
                    name |-> input.name,
                    prefix |-> prefix,
                    key_hash |-> keyHash,
                    permissions |-> JSONstringify(PermissionsOrDefault(input.permissions)),
                    created_at |-> now,
                    last_used_at |-> NULL,
                    expires_at |-> OrNull(input.expiresAt),
                    revoked |-> 0])
        record == [id |-> id,
                   name |-> input.name,
                   prefix |-> prefix,
                   keyHash |-> keyHash,
                   permissions |-> PermissionsOrDefault(input.permissions),
                   createdAt |-> now,
                   lastUsedAt |-> NULL,
                   expiresAt |-> OrNull(input.expiresAt),
                   revoked |-> FALSE]
    IN  [tbl |-> ins.tbl, threw |-> ins.threw, key |-> key,
         rec |-> IF ins.threw THEN <<>> ELSE <<record>>]

\* create(input) with generators that hand out their n-th, fresh, outputs.
create(tbl, input, n, now) == createWith(tbl, input, n, n, now)

validate_ExpiresAtNow(tbl, key, now, touchFails) ==
    LET found == FirstRecord(stmtFindByHash(tbl, hashKey(key)))
    IN  IF found = <<>> THEN [tbl |-> tbl, rec |-> <<>>]
        ELSE IF Truthy(found[1].expiresAt) /\ now >= found[1].expiresAt
             THEN [tbl |-> tbl, rec |-> <<>>]
        ELSE [tbl |-> IF touchFails THEN tbl
                      ELSE stmtUpdateLastUsed(tbl, now, found[1].id).tbl,
              rec |-> found]

validate_NoExpiry(tbl, key, now, touchFails) ==
    LET found == FirstRecord(stmtFindByHash(tbl, hashKey(key)))
    IN  IF found = <<>> THEN [tbl |-> tbl, rec |-> <<>>]
        ELSE [tbl |-> IF touchFails THEN tbl
                      ELSE stmtUpdateLastUsed(tbl, now, found[1].id).tbl,
              rec |-> found]

validate_TouchRevoked(tbl, key, now, touchFails) ==
    LET keyHash == hashKey(key)
        found == FirstRecord(stmtFindByHash(tbl, keyHash))
        rows == {r \in tbl : r.key_hash = keyHash}
    IN  IF found = <<>>
        THEN [tbl |-> IF touchFails THEN tbl
                      ELSE {IF r \in rows THEN [r EXCEPT !.last_used_at = now] ELSE r :
                               r \in tbl},
              rec |-> <<>>]
        ELSE IF Truthy(found[1].expiresAt) /\ now > found[1].expiresAt
             THEN [tbl |-> tbl, rec |-> <<>>]
        ELSE [tbl |-> IF touchFails THEN tbl
                      ELSE stmtUpdateLastUsed(tbl, now, found[1].id).tbl,
              rec |-> found]

validate_TouchMustSucceed(tbl, key, now, touchFails) ==
    LET keyHash == hashKey(key)
        found == FirstRecord(stmtFindByHash(tbl, keyHash))
    IN  IF found = <<>> THEN [tbl |-> tbl, rec |-> <<>>]
        ELSE IF Truthy(found[1].expiresAt) /\ now > found[1].expiresAt
             THEN [tbl |-> tbl, rec |-> <<>>]
        ELSE IF touchFails THEN [tbl |-> tbl, rec |-> <<>>]
        ELSE [tbl |-> stmtUpdateLastUsed(tbl, now, found[1].id).tbl, rec |-> found]

validate_TouchFirst(tbl, key, now, touchFails) ==
    LET keyHash == hashKey(key)
        found == FirstRecord(stmtFindByHash(tbl, keyHash))
        touched == IF touchFails THEN tbl
                   ELSE stmtUpdateLastUsed(tbl, now, found[1].id).tbl
    IN  IF found = <<>> THEN [tbl |-> tbl, rec |-> <<>>]
        ELSE IF Truthy(found[1].expiresAt) /\ now > found[1].expiresAt
             THEN [tbl |-> touched, rec |-> <<>>]
        ELSE [tbl |-> touched, rec |-> found]

\* validate(key): now is Date.now(); touchFails is the outcome of the
\* updateLastUsed write, whose error is swallowed.
validate(tbl, key, now, touchFails) ==
    LET keyHash == hashKey(key)
        found == FirstRecord(stmtFindByHash(tbl, keyHash))
    IN  IF found = <<>> THEN [tbl |-> tbl, rec |-> <<>>]
        ELSE IF Truthy(found[1].expiresAt) /\ now > found[1].expiresAt
             THEN [tbl |-> tbl, rec |-> <<>>]
        ELSE [tbl |-> IF touchFails THEN tbl
                      ELSE stmtUpdateLastUsed(tbl, now, found[1].id).tbl,
              rec |-> found]

getById(tbl, id) == FirstRecord(stmtFindById(tbl, id))

\* list(includeRevoked): the possible result sequences.
list(tbl, includeRevoked) ==
    {[i \in DOMAIN s |-> rowToRecord(s[i])] :
        s \in IF includeRevoked THEN stmtListAll(tbl) ELSE stmtListActive(tbl)}

revoke(tbl, id) ==
    LET result == stmtRevoke(tbl, id)
    IN  [tbl |-> result.tbl, ret |-> result.changes > 0]

delete_AsRevoke(tbl, id) ==
    LET result == stmtRevoke(tbl, id)
    IN  [tbl |-> result.tbl, ret |-> result.changes > 0]

delete_Unchecked(tbl, id) ==
    LET result == stmtDeleteKey(tbl, id)
    IN  [tbl |-> result.tbl, ret |-> TRUE]

delete(tbl, id) ==
    LET result == stmtDeleteKey(tbl, id)
    IN  [tbl |-> result.tbl, ret |-> result.changes > 0]

updateName(tbl, id, name) ==
    LET result == stmtUpdateName(tbl, name, id)
    IN  [tbl |-> result.tbl, ret |-> result.changes > 0]

getActiveCount(tbl) == stmtCount(tbl)

----------------------------------------------------------------------------
(* Responses (utils/response.js: successResponse, errorResponse) *)

NoCall ==
    [op |-> "none", ret |-> FALSE, rec |-> <<>>, key |-> <<>>, now |-> 0, count |-> 0]

NoResponse == [status |-> 0, code |-> "", message |-> "", body |-> <<>>]

\* body is the sequence of objects sent: one object, or the elements of an array.
successResponse(data, statusCode) ==
    [status |-> statusCode, code |-> "", message |-> "", body |-> data]

errorResponse(code, message, statusCode) ==
    [status |-> statusCode, code |-> code, message |-> message, body |-> <<>>]

----------------------------------------------------------------------------
(* Request inputs.  A JSON value carries its type in t. *)

Undefined == [t |-> "undefined", s |-> <<>>, a |-> <<>>, n |-> 0]
JsonNull == [t |-> "null", s |-> <<>>, a |-> <<>>, n |-> 0]
JsonString(s) == [t |-> "string", s |-> s, a |-> <<>>, n |-> 0]
JsonNumber(n) == [t |-> "number", s |-> <<>>, a |-> <<>>, n |-> n]
JsonArray(a) == [t |-> "array", s |-> <<>>, a |-> a, n |-> 0]

NoBody == [name |-> Undefined, permissions |-> Undefined, expiresAt |-> Undefined]

\* A request: its route, req.params.keyId, req.body and the query flag
\* (includeRevoked, permanent).
Request(route, keyId, body, flag) ==
    [route |-> route, keyId |-> keyId, body |-> body, flag |-> flag]

NoRequest == Request("", 0, NoBody, FALSE)

\* The reverse proxy before its first request: req.url, whether the request
\* was an upgrade, the port it was forwarded to, the status the client got,
\* and the requests forwarded to each backend so far.
NoProxy == [url |-> <<>>, upgrade |-> FALSE, port |-> 0, status |-> 0, api |-> 0, ui |-> 0]

\* React.useState<AuthState>({...}): role and error are a string or "null".
InitialAuthState ==
    [isAuthenticated |-> FALSE, isLoading |-> TRUE, role |-> "null", error |-> "null"]

\* The provider before its effect has run: whether the mount effect has run,
\* the verifications in flight (each the n-th call of verifyKey, made by the
\* mount effect or by login, for a key), the calls of verifyKey so far, and
\* the verification that completed last with localStorage as it was before.
NoResponseYet == [threw |-> FALSE, success |-> FALSE, role |-> ""]
NoSettled ==
    [n |-> 0, by |-> "none", key |-> "", response |-> NoResponseYet, storage |-> <<>>]
NoSession == [mounted |-> FALSE, inflight |-> {}, calls |-> 0, settled |-> NoSettled]

\* What a middleware did with a request: req.headers['authorization'],
\* process.env.CIPHER_ADMIN_KEY as it read them, how often it called next(),
\* and req.apiKey (a sequence of zero or one records).
NoGate == [name |-> "none", header |-> Undefined, adminKey |-> Undefined,
           next |-> 0, apiKey |-> <<>>]

\* !v
Falsy(v) ==
    \/ v.t \in {"undefined", "null"}
    \/ v.t = "string" /\ Len(v.s) = 0
    \/ v.t = "number" /\ v.n = 0

\* Number(v) is NaN
IsNaNNumber(v) == v.t \in {"undefined", "array"} \/ (v.t = "string" /\ Len(v.s) > 0)

\* Number(v) when it is not NaN: Number(null) and Number("") are 0.
ToNumber(v) == IF v.t = "number" THEN v.n ELSE 0

Names ==
    {Undefined,
     JsonNumber(7),
     JsonString(<<>>),
     JsonString(<<" ">>),
     JsonString(<<"a">>),
     JsonString(<<" ", "b", " ">>),
     JsonString(Repeat("a", MaxNameLength)),
     JsonString(Repeat("a", MaxNameLength) \o <<" ">>),
     JsonString(Repeat("a", MaxNameLength + 1))}

PermissionInputs ==
    {Undefined,
     JsonNull,
     JsonString(<<"a">>),
     JsonArray(<<>>),
     JsonArray(<<"read">>),
     JsonArray(<<"*">>)}

\* expiresAt as sent at time `now`
ExpiresAtInputs(now) ==
    {Undefined,
     JsonNull,
     JsonString(<<"a">>),
     JsonNumber(0),
     JsonNumber(now - 1),
     JsonNumber(now),
     JsonNumber(now + 1)}

PlainName == JsonString(<<"a">>)

\* The request bodies of POST /: each field varied over its inputs with the
\* others plain, and the accepted values of the fields combined.
BodiesAt(now) ==
    {[name |-> nm, permissions |-> Undefined, expiresAt |-> Undefined] : nm \in Names}
    \cup {[name |-> PlainName, permissions |-> p, expiresAt |-> Undefined] :
            p \in PermissionInputs}
    \cup {[name |-> PlainName, permissions |-> Undefined, expiresAt |-> e] :
            e \in ExpiresAtInputs(now)}
    \cup {[name |-> PlainName, permissions |-> p, expiresAt |-> JsonNumber(now + 1)] :
            p \in {JsonArray(<<>>), JsonArray(<<"read">>)}}

\* The bodies sent at each time, computed once.
PostBodiesTable == [now \in 1..MaxClock |-> BodiesAt(now)]
PostBodies(now) == PostBodiesTable[now]

\* The ids requests name: those the generator can hand out, and one more.
Ids == 1..(NumKeys + 1)
InputIds == 1..(NumInputKeys + 1)


----------------------------------------------------------------------------
(* The admin routes (createApiKeyRoutes) *)

sanitized_Whole(k) == k

\* The sanitized view of GET /: keyHash is stripped.
sanitized(k) ==
    [id |-> k.id,
     name |-> k.name,
     prefix |-> k.prefix,
     permissions |-> k.permissions,
     createdAt |-> k.createdAt,
     lastUsedAt |-> k.lastUsedAt,
     expiresAt |-> k.expiresAt,
     revoked |-> k.revoked]

\* The body of GET /:keyId
keyDetails(record) ==
    [id |-> record.id,
     name |-> record.name,
     prefix |-> record.prefix,
     permissions |-> record.permissions,
     createdAt |-> record.createdAt,
     lastUsedAt |-> record.lastUsedAt,
     expiresAt |-> record.expiresAt,
     revoked |-> record.revoked]

\* The body of a 201 answer of POST /
createdBody(result) ==
    [key |-> result.key,
     id |-> result.rec[1].id,
     name |-> result.rec[1].name,
     prefix |-> result.rec[1].prefix,
     permissions |-> result.rec[1].permissions,
     createdAt |-> result.rec[1].createdAt,
     expiresAt |-> result.rec[1].expiresAt]

nameMissing(name) ==
    Falsy(name) \/ name.t # "string" \/ Len(trim(name.s)) = 0

nameTooLong_AtLimit(name) == Len(name.s) >= MaxNameLength

nameTooLong(name) == Len(name.s) > MaxNameLength

permissionsNotArray(permissions) == ~Falsy(permissions) /\ permissions.t # "array"

expiresAtNotFuture_Strict(expiresAt, now) ==
    /\ expiresAt.t \notin {"undefined", "null"}
    /\ (IsNaNNumber(expiresAt) \/ ToNumber(expiresAt) < now)

expiresAtNotFuture(expiresAt, now) ==
    /\ expiresAt.t \notin {"undefined", "null"}
    /\ (IsNaNNumber(expiresAt) \/ ToNumber(expiresAt) <= now)

\* The input handed to store.create
createInput(body) ==
    [name |-> trim(body.name.s),
     permissions |-> IF Falsy(body.permissions) THEN JsonArray(DefaultPermissions)
                     ELSE body.permissions,
     expiresAt |-> IF Falsy(body.expiresAt) THEN NULL ELSE ToNumber(body.expiresAt)]

\* POST /: the generators are drawn at most `cap` times; k and u are the
\* positions of the key and of the id they hand out.
PostKeysWith(body, cap, k, u) ==
    /\ req' = Request("POST /", 0, body, FALSE)
    /\ gate' = NoGate
    /\ UNCHANGED <<proxy, pending, state, localStorage, session>>
    /\ IF nameMissing(body.name)
       THEN /\ res' = errorResponse("VALIDATION_ERROR",
                          "Name is required and must be a non-empty string", 400)
            /\ call' = NoCall
            /\ UNCHANGED <<api_keys, clock, issued>>
       ELSE IF nameTooLong(body.name)
       THEN /\ res' = errorResponse("VALIDATION_ERROR",
                          "Name must be 100 characters or less", 400)
            /\ call' = NoCall
            /\ UNCHANGED <<api_keys, clock, issued>>
       ELSE IF permissionsNotArray(body.permissions)
       THEN /\ res' = errorResponse("VALIDATION_ERROR",
                          "Permissions must be an array of strings", 400)
            /\ call' = NoCall
            /\ UNCHANGED <<api_keys, clock, issued>>
       ELSE IF expiresAtNotFuture(body.expiresAt, clock)
       THEN /\ res' = errorResponse("VALIDATION_ERROR",
                          "expiresAt must be a future Unix timestamp in milliseconds", 400)
            /\ call' = NoCall
            /\ UNCHANGED <<api_keys, clock, issued>>
       ELSE /\ issued < cap
            /\ LET result == createWith(api_keys, createInput(body), k, u, clock)
               IN  /\ api_keys' = result.tbl
                   /\ call' = [op |-> "create", ret |-> ~result.threw,
                               rec |-> result.rec, key |-> result.key, now |-> clock, count |-> 0]
                   /\ res' = IF result.threw
                             THEN errorResponse("INTERNAL_ERROR",
                                      "Failed to create API key", 500)
                             ELSE successResponse(<<createdBody(result)>>, 201)
            /\ issued' = issued + 1
            /\ UNCHANGED clock

\* POST / with fresh generators.
PostKeysUpTo(body, cap) == PostKeysWith(body, cap, issued + 1, issued + 1)

PostKeys(body) == PostKeysUpTo(body, NumKeys)

\* GET /: listing is one of the orders the query may return.
GetKeys(includeRevoked, keys) ==
    /\ keys \in list(api_keys, includeRevoked)
    /\ req' = Request("GET /", 0, NoBody, includeRevoked)
    /\ gate' = NoGate
    /\ UNCHANGED <<proxy, pending, state, localStorage, session>>
    /\ call' = [op |-> "list", ret |-> includeRevoked, rec |-> keys,
                key |-> <<>>, now |-> clock, count |-> 0]
    /\ res' = successResponse([i \in DOMAIN keys |-> sanitized(keys[i])], 200)
    /\ UNCHANGED <<api_keys, clock, issued>>

\* GET /:keyId
GetKeyById(keyId) ==
    LET record == getById(api_keys, keyId)
    IN  /\ req' = Request("GET /:keyId", keyId, NoBody, FALSE)
        /\ gate' = NoGate
        /\ UNCHANGED <<proxy, pending, state, localStorage, session>>
        /\ call' = [op |-> "getById", ret |-> record # <<>>, rec |-> record,
                    key |-> <<>>, now |-> clock, count |-> 0]
        /\ res' = IF record = <<>>
                  THEN errorResponse("NOT_FOUND", "API key not found", 404)
                  ELSE successResponse(<<keyDetails(record[1])>>, 200)
        /\ UNCHANGED <<api_keys, clock, issued>>

\* PUT /:keyId
PutKey(keyId, name) ==
    /\ req' = Request("PUT /:keyId", keyId, [NoBody EXCEPT !.name = name], FALSE)
    /\ gate' = NoGate
    /\ UNCHANGED <<proxy, pending, state, localStorage, session>>
    /\ IF nameMissing(name)
       THEN /\ res' = errorResponse("VALIDATION_ERROR", "Name is required", 400)
            /\ call' = NoCall
            /\ UNCHANGED <<api_keys, clock, issued>>
       ELSE LET existing == getById(api_keys, keyId)
                updated == updateName(api_keys, keyId, trim(name.s))
            IN  IF existing = <<>>
                THEN /\ res' = errorResponse("NOT_FOUND", "API key not found", 404)
                     /\ call' = [op |-> "getById", ret |-> FALSE, rec |-> <<>>,
                                 key |-> <<>>, now |-> clock, count |-> 0]
                     /\ UNCHANGED <<api_keys, clock, issued>>
                ELSE /\ api_keys' = updated.tbl
                     /\ call' = [op |-> "updateName", ret |-> updated.ret,
                                 rec |-> existing, key |-> <<>>, now |-> clock, count |-> 0]
                     /\ res' = successResponse(
                                   <<[id |-> keyId, name |-> trim(name.s),
                                      updated |-> TRUE]>>, 200)
                     /\ UNCHANGED <<clock, issued>>

\* DELETE /:keyId
DeleteKey(keyId, permanent) ==
    LET existing == getById(api_keys, keyId)
        done == IF permanent THEN delete(api_keys, keyId) ELSE revoke(api_keys, keyId)
    IN  /\ req' = Request("DELETE /:keyId", keyId, NoBody, permanent)
        /\ gate' = NoGate
        /\ UNCHANGED <<proxy, pending, state, localStorage, session>>
        /\ IF existing = <<>>
           THEN /\ res' = errorResponse("NOT_FOUND", "API key not found", 404)
                /\ call' = [op |-> "getById", ret |-> FALSE, rec |-> <<>>,
                            key |-> <<>>, now |-> clock, count |-> 0]
                /\ UNCHANGED <<api_keys, clock, issued>>
           ELSE /\ api_keys' = done.tbl
                /\ call' = [op |-> IF permanent THEN "delete" ELSE "revoke",
                            ret |-> done.ret, rec |-> existing, key |-> <<>>,
                            now |-> clock, count |-> 0]
                /\ res' = successResponse(
                              <<[id |-> keyId,
                                 action |-> IF permanent THEN "deleted" ELSE "revoked"]>>,
                              200)
                /\ UNCHANGED <<clock, issued>>

\* store.validate(key), as the auth middleware calls it for a bearer token.
Validate(key, touchFails) ==
    /\ LET result == validate(api_keys, key, clock, touchFails)
       IN  /\ api_keys' = result.tbl
           /\ call' = [op |-> "validate", ret |-> result.rec # <<>>, rec |-> result.rec,
                       key |-> key, now |-> clock, count |-> 0]
    /\ req' = NoRequest
    /\ gate' = NoGate
    /\ UNCHANGED <<proxy, pending, state, localStorage, session>>
    /\ res' = NoResponse
    /\ UNCHANGED <<clock, issued>>

\* Time passes.
Tick ==
    /\ clock < MaxClock
    /\ clock' = clock + 1
    /\ req' = NoRequest
    /\ gate' = NoGate
    /\ UNCHANGED <<proxy, pending, state, localStorage, session>>
    /\ call' = NoCall
    /\ res' = NoResponse
    /\ UNCHANGED <<api_keys, issued>>

----------------------------------------------------------------------------
(* The middleware: createApiKeyAuth, createAdminAuth, createOptionalApiKeyAuth *)

Bearer == <<"B", "e", "a", "r", "e", "r">>

\* authHeader.split(' '): the number of parts, and parts[n].
Spaces(s) == {i \in 1..Len(s) : s[i] = " "}

splitLength(s) == Cardinality(Spaces(s)) + 1

splitPart(s, n) ==
    LET sp == Spaces(s)
        cut(k) == IF k = 0 THEN 0
                  ELSE IF k > Cardinality(sp) THEN Len(s) + 1
                  ELSE CHOOSE i \in sp : Cardinality({j \in sp : j < i}) = k - 1
    IN  SubSeq(s, cut(n) + 1, cut(n + 1) - 1)

\* Array.prototype.includes on a permissions array
includes(a, x) == \E i \in DOMAIN a : a[i] = x

authFormatInvalid_SchemeOnly(s) == splitPart(s, 0) # Bearer

\* parts.length !== 2 || parts[0] !== 'Bearer'
authFormatInvalid(s) == splitLength(s) # 2 \/ splitPart(s, 0) # Bearer

lacksKeyTag_Never(key) == Len(key) = 0

\* !key || !key.startsWith('sk-')
lacksKeyTag(key) == Len(key) = 0 \/ ~startsWith(key, KeyTag)

\* What a middleware does: the calls of next(), the response it sends,
\* req.apiKey, the table and the call it made on the store.
Decision(next, response, apiKey, tbl, storeCall) ==
    [next |-> next, res |-> response, apiKey |-> apiKey, tbl |-> tbl,
     call |-> storeCall]

Rejected(tbl, message, statusCode) ==
    Decision(0, errorResponse("UNAUTHORIZED", message, statusCode), <<>>, tbl, NoCall)

validateCall(key, now, v) ==
    [op |-> "validate", ret |-> v.rec # <<>>, rec |-> v.rec, key |-> key,
     now |-> now, count |-> 0]

\* createApiKeyAuth(store)(req, res, next)
apiKeyAuth(tbl, authHeader, now, touchFails) ==
    IF Falsy(authHeader)
    THEN Rejected(tbl,
             "Missing Authorization header. Provide: Authorization: Bearer <api-key>", 401)
    ELSE IF authFormatInvalid(authHeader.s)
    THEN Rejected(tbl, "Invalid Authorization format. Expected: Bearer <api-key>", 401)
    ELSE LET key == splitPart(authHeader.s, 1)
         IN  IF lacksKeyTag(key)
             THEN Rejected(tbl, "Invalid API key format", 401)
             ELSE LET v == validate(tbl, key, now, touchFails)
                  IN  IF v.rec = <<>>
                      THEN Decision(0,
                               errorResponse("UNAUTHORIZED",
                                   "Invalid or expired API key", 401),
                               <<>>, v.tbl, validateCall(key, now, v))
                      ELSE Decision(1, NoResponse, v.rec, v.tbl,
                               validateCall(key, now, v))

hasAdminPermission_WildcardOnly(permissions) == includes(permissions, "*")

\* record.permissions.includes('*') || record.permissions.includes('admin:*')
hasAdminPermission(permissions) ==
    includes(permissions, "*") \/ includes(permissions, "admin:*")

adminAuth_KeyFirst(tbl, authHeader, adminKey, now, touchFails) ==
    IF Falsy(authHeader)
    THEN Rejected(tbl, "Admin authentication required", 401)
    ELSE IF authFormatInvalid(authHeader.s)
    THEN Rejected(tbl, "Invalid Authorization format", 401)
    ELSE LET token == splitPart(authHeader.s, 1)
             denied == errorResponse("UNAUTHORIZED", "Invalid admin credentials", 403)
             v == validate(tbl, token, now, touchFails)
             root == ~Falsy(adminKey) /\ token = adminKey.s
         IN  IF startsWith(token, KeyTag)
             THEN IF v.rec # <<>> /\ hasAdminPermission(v.rec[1].permissions)
                  THEN Decision(1, NoResponse, v.rec, v.tbl, validateCall(token, now, v))
                  ELSE IF root
                  THEN Decision(1, NoResponse, <<>>, v.tbl, validateCall(token, now, v))
                  ELSE Decision(0, denied, <<>>, v.tbl, validateCall(token, now, v))
             ELSE IF root
             THEN Decision(1, NoResponse, <<>>, tbl, NoCall)
             ELSE Decision(0, denied, <<>>, tbl, NoCall)

adminAuth_AnySecret(tbl, authHeader, adminKey, now, touchFails) ==
    IF Falsy(authHeader)
    THEN Rejected(tbl, "Admin authentication required", 401)
    ELSE IF authFormatInvalid(authHeader.s)
    THEN Rejected(tbl, "Invalid Authorization format", 401)
    ELSE LET token == splitPart(authHeader.s, 1)
             denied == errorResponse("UNAUTHORIZED", "Invalid admin credentials", 403)
         IN  IF token = adminKey.s
             THEN Decision(1, NoResponse, <<>>, tbl, NoCall)
             ELSE IF startsWith(token, KeyTag)
             THEN LET v == validate(tbl, token, now, touchFails)
                  IN  IF v.rec # <<>> /\ hasAdminPermission(v.rec[1].permissions)
                      THEN Decision(1, NoResponse, v.rec, v.tbl,
                               validateCall(token, now, v))
                      ELSE Decision(0, denied, <<>>, v.tbl, validateCall(token, now, v))
             ELSE Decision(0, denied, <<>>, tbl, NoCall)

\* createAdminAuth(store)(req, res, next); adminKey is process.env.CIPHER_ADMIN_KEY.
adminAuth(tbl, authHeader, adminKey, now, touchFails) ==
    IF Falsy(authHeader)
    THEN Rejected(tbl, "Admin authentication required", 401)
    ELSE IF authFormatInvalid(authHeader.s)
    THEN Rejected(tbl, "Invalid Authorization format", 401)
    ELSE LET token == splitPart(authHeader.s, 1)
             denied == errorResponse("UNAUTHORIZED", "Invalid admin credentials", 403)
         IN  IF ~Falsy(adminKey) /\ token = adminKey.s
             THEN Decision(1, NoResponse, <<>>, tbl, NoCall)
             ELSE IF startsWith(token, KeyTag)
             THEN LET v == validate(tbl, token, now, touchFails)
                  IN  IF v.rec # <<>> /\ hasAdminPermission(v.rec[1].permissions)
                      THEN Decision(1, NoResponse, v.rec, v.tbl,
                               validateCall(token, now, v))
                      ELSE Decision(0, denied, <<>>, v.tbl, validateCall(token, now, v))
             ELSE Decision(0, denied, <<>>, tbl, NoCall)

optionalApiKeyAuth_Rejecting(tbl, authHeader, now, touchFails) ==
    apiKeyAuth(tbl, authHeader, now, touchFails)

\* createOptionalApiKeyAuth(store)(req, _res, next)
optionalApiKeyAuth(tbl, authHeader, now, touchFails) ==
    IF ~Falsy(authHeader)
       /\ splitLength(authHeader.s) = 2
       /\ splitPart(authHeader.s, 0) = Bearer
       /\ startsWith(splitPart(authHeader.s, 1), KeyTag)
    THEN LET key == splitPart(authHeader.s, 1)
             v == validate(tbl, key, now, touchFails)
         IN  Decision(1, NoResponse, v.rec, v.tbl, validateCall(key, now, v))
    ELSE Decision(1, NoResponse, <<>>, tbl, NoCall)

\* A middleware has run on a request and decided.
Decide(name, authHeader, adminKey, d) ==
    /\ api_keys' = d.tbl
    /\ call' = d.call
    /\ res' = d.res
    /\ gate' = [name |-> name, header |-> authHeader, adminKey |-> adminKey,
                next |-> d.next, apiKey |-> d.apiKey]
    /\ req' = NoRequest
    /\ UNCHANGED <<clock, issued, proxy, pending, state, localStorage, session>>

AuthGate(authHeader, touchFails) ==
    Decide("required", authHeader, Undefined,
           apiKeyAuth(api_keys, authHeader, clock, touchFails))

AdminGate(authHeader, adminKey, touchFails) ==
    Decide("admin", authHeader, adminKey,
           adminAuth(api_keys, authHeader, adminKey, clock, touchFails))

OptionalAuthGate(authHeader, touchFails) ==
    Decide("optional", authHeader, Undefined,
           optionalApiKeyAuth(api_keys, authHeader, clock, touchFails))

\* A root secret, a token without the key tag, the tag alone.
RootSecret == <<"c", "a", "f", "e">>
UntaggedToken == <<"a", "b", "c">>

\* The keys presented to the middleware.
GateKeys == {generateKey(n) : n \in 1..NumInputKeys} \cup {UnknownKey}

\* req.headers['authorization']
AuthHeaders ==
    {Undefined,
     JsonString(<<>>),
     JsonString(Bearer),
     JsonString(Bearer \o <<" ">>),
     JsonString(generateKey(1)),
     JsonString(<<"B", "a", "s", "i", "c", " ">> \o generateKey(1)),
     JsonString(<<"b", "e", "a", "r", "e", "r", " ">> \o generateKey(1)),
     JsonString(Bearer \o <<" ", " ">> \o generateKey(1)),
     JsonString(Bearer \o <<" ">> \o generateKey(1) \o <<" ", "a">>),
     JsonString(Bearer \o <<" ">> \o UntaggedToken),
     JsonString(Bearer \o <<" ">> \o RootSecret),
     JsonString(Bearer \o <<" ">> \o KeyTag)}
    \cup {JsonString(Bearer \o <<" ">> \o key) : key \in GateKeys}

\* process.env.CIPHER_ADMIN_KEY: unset, empty, a secret, a secret that is also
\* the plaintext of a key.
AdminKeys ==
    {Undefined, JsonString(<<>>), JsonString(RootSecret), JsonString(generateKey(1))}

\* The bodies of POST / that differ in what the middleware reads of the record.
GateBodiesTable ==
    [now \in 1..MaxClock |->
        {[name |-> PlainName, permissions |-> p, expiresAt |-> e] :
            p \in {Undefined, JsonArray(<<>>), JsonArray(<<"read">>),
                   JsonArray(<<"admin:*">>)},
            e \in {Undefined, JsonNumber(now + 1)}}]
GateBodies(now) == GateBodiesTable[now]

----------------------------------------------------------------------------

Init ==
    /\ api_keys = {}
    /\ clock = 1
    /\ issued = 0
    /\ req = NoRequest
    /\ call = NoCall
    /\ res = NoResponse
    /\ gate = NoGate
    /\ proxy = NoProxy
    /\ pending = <<>>
    /\ state = InitialAuthState
    /\ localStorage = <<>>
    /\ session = NoSession

\* Every handler, with the request bodies that differ in what the store keeps
\* narrowed to a plain name and the default permissions: the life of a key
\* (issue, use, rename, expiry, revocation, removal) with two keys at once.
PlainBodiesTable ==
    [now \in 1..MaxClock |->
        {b \in PostBodies(now) : b.name = PlainName /\ b.permissions = Undefined}]
PlainBodies(now) == PlainBodiesTable[now]

PlainNames == {JsonString(<<>>), PlainName}

Next ==
    \/ \E body \in PlainBodies(clock) : PostKeys(body)
    \/ \E includeRevoked \in BOOLEAN :
           \E keys \in list(api_keys, includeRevoked) : GetKeys(includeRevoked, keys)
    \/ \E keyId \in Ids : GetKeyById(keyId)
    \/ \E keyId \in Ids, name \in PlainNames : PutKey(keyId, name)
    \/ \E keyId \in Ids, permanent \in BOOLEAN : DeleteKey(keyId, permanent)
    \/ \E key \in PresentedKeys, touchFails \in BOOLEAN : Validate(key, touchFails)
    \/ Tick

Spec == Init /\ [][Next]_vars

\* Every handler with every request body and every name, one key at a time.
NextInputs ==
    \/ \E body \in PostBodies(clock) : PostKeysUpTo(body, NumInputKeys)
    \/ \E includeRevoked \in BOOLEAN :
           \E keys \in list(api_keys, includeRevoked) : GetKeys(includeRevoked, keys)
    \/ \E keyId \in InputIds : GetKeyById(keyId)
    \/ \E keyId \in InputIds, name \in Names : PutKey(keyId, name)
    \/ \E keyId \in InputIds, permanent \in BOOLEAN : DeleteKey(keyId, permanent)
    \/ \E key \in PresentedKeys, touchFails \in BOOLEAN : Validate(key, touchFails)
    \/ Tick

SpecInputs == Init /\ [][NextInputs]_vars

\* Every handler, with generators that may repeat an output: randomBytes and
\* randomUUID each hand out any of their values, whatever they handed out before.
NextCollide ==
    \/ \E body \in PlainBodies(clock), k \in 1..NumKeys, u \in 1..NumKeys :
           PostKeysWith(body, MaxDraws, k, u)
    \/ \E includeRevoked \in BOOLEAN :
           \E keys \in list(api_keys, includeRevoked) : GetKeys(includeRevoked, keys)
    \/ \E keyId \in Ids : GetKeyById(keyId)
    \/ \E keyId \in Ids, name \in PlainNames : PutKey(keyId, name)
    \/ \E keyId \in Ids, permanent \in BOOLEAN : DeleteKey(keyId, permanent)
    \/ \E key \in PresentedKeys, touchFails \in BOOLEAN : Validate(key, touchFails)
    \/ Tick

SpecCollide == Init /\ [][NextCollide]_vars

\* The middleware in front of a store whose keys are issued, revoked, deleted
\* and left to expire.
NextGates ==
    \/ \E body \in GateBodies(clock) : PostKeysUpTo(body, NumInputKeys)
    \/ \E keyId \in InputIds, permanent \in BOOLEAN : DeleteKey(keyId, permanent)
    \/ \E authHeader \in AuthHeaders, touchFails \in BOOLEAN :
           AuthGate(authHeader, touchFails)
    \/ \E authHeader \in AuthHeaders, adminKey \in AdminKeys, touchFails \in BOOLEAN :
           AdminGate(authHeader, adminKey, touchFails)
    \/ \E authHeader \in AuthHeaders, touchFails \in BOOLEAN :
           OptionalAuthGate(authHeader, touchFails)
    \/ Tick

SpecGates == Init /\ [][NextGates]_vars

\* The same, with keys renamed as well: every operation that writes a row.
RenamedName == JsonString(<<" ", "b", " ">>)

NextGatesRename ==
    \/ NextGates
    \/ \E keyId \in InputIds : PutKey(keyId, RenamedName)

SpecGatesRename == Init /\ [][NextGatesRename]_vars

----------------------------------------------------------------------------
(* The methods of ApiKeyStore called directly.  req holds the arguments of   *)
(* the call: the method in route, the id in keyId, the name in body.name and *)
(* includeRevoked in flag.                                                   *)

\* The inputs of create: the store checks none of them.
StoreInputs(now) ==
    {[name |-> <<"a">>, permissions |-> p, expiresAt |-> e] :
        p \in {Undefined, JsonArray(<<"read">>)}, e \in {NULL, now + 1}}

StoreCreate(input) ==
    /\ issued < NumKeys
    /\ LET result == create(api_keys, input, issued + 1, clock)
       IN  /\ api_keys' = result.tbl
           /\ call' = [op |-> "create", ret |-> ~result.threw, rec |-> result.rec,
                       key |-> result.key, now |-> clock, count |-> 0]
    /\ issued' = issued + 1
    /\ req' = Request("create", 0, [NoBody EXCEPT !.name = JsonString(input.name)], FALSE)
    /\ gate' = NoGate
    /\ UNCHANGED <<proxy, pending, state, localStorage, session>>
    /\ res' = NoResponse
    /\ UNCHANGED clock

StoreGetById(id) ==
    /\ LET record == getById(api_keys, id)
       IN  call' = [op |-> "getById", ret |-> record # <<>>, rec |-> record,
                    key |-> <<>>, now |-> clock, count |-> 0]
    /\ req' = Request("getById", id, NoBody, FALSE)
    /\ gate' = NoGate
    /\ UNCHANGED <<proxy, pending, state, localStorage, session>>
    /\ res' = NoResponse
    /\ UNCHANGED <<api_keys, clock, issued>>

StoreList(includeRevoked, keys) ==
    /\ keys \in list(api_keys, includeRevoked)
    /\ call' = [op |-> "list", ret |-> includeRevoked, rec |-> keys,
                key |-> <<>>, now |-> clock, count |-> 0]
    /\ req' = Request("list", 0, NoBody, includeRevoked)
    /\ gate' = NoGate
    /\ UNCHANGED <<proxy, pending, state, localStorage, session>>
    /\ res' = NoResponse
    /\ UNCHANGED <<api_keys, clock, issued>>

StoreRevoke(id) ==
    /\ LET result == revoke(api_keys, id)
       IN  /\ api_keys' = result.tbl
           /\ call' = [op |-> "revoke", ret |-> result.ret, rec |-> <<>>,
                       key |-> <<>>, now |-> clock, count |-> 0]
    /\ req' = Request("revoke", id, NoBody, FALSE)
    /\ gate' = NoGate
    /\ UNCHANGED <<proxy, pending, state, localStorage, session>>
    /\ res' = NoResponse
    /\ UNCHANGED <<clock, issued>>

StoreDelete(id) ==
    /\ LET result == delete(api_keys, id)
       IN  /\ api_keys' = result.tbl
           /\ call' = [op |-> "delete", ret |-> result.ret, rec |-> <<>>,
                       key |-> <<>>, now |-> clock, count |-> 0]
    /\ req' = Request("delete", id, NoBody, FALSE)
    /\ gate' = NoGate
    /\ UNCHANGED <<proxy, pending, state, localStorage, session>>
    /\ res' = NoResponse
    /\ UNCHANGED <<clock, issued>>

StoreUpdateName(id, name) ==
    /\ LET result == updateName(api_keys, id, name)
       IN  /\ api_keys' = result.tbl
           /\ call' = [op |-> "updateName", ret |-> result.ret, rec |-> <<>>,
                       key |-> <<>>, now |-> clock, count |-> 0]
    /\ req' = Request("updateName", id, [NoBody EXCEPT !.name = JsonString(name)], FALSE)
    /\ gate' = NoGate
    /\ UNCHANGED <<proxy, pending, state, localStorage, session>>
    /\ res' = NoResponse
    /\ UNCHANGED <<clock, issued>>

StoreGetActiveCount ==
    /\ call' = [op |-> "getActiveCount", ret |-> TRUE, rec |-> <<>>,
                key |-> <<>>, now |-> clock, count |-> getActiveCount(api_keys)]
    /\ req' = Request("getActiveCount", 0, NoBody, FALSE)
    /\ gate' = NoGate
    /\ UNCHANGED <<proxy, pending, state, localStorage, session>>
    /\ res' = NoResponse
    /\ UNCHANGED <<api_keys, clock, issued>>

NextStore ==
    \/ \E input \in StoreInputs(clock) : StoreCreate(input)
    \/ \E key \in PresentedKeys, touchFails \in BOOLEAN : Validate(key, touchFails)
    \/ \E id \in Ids : StoreGetById(id)
    \/ \E includeRevoked \in BOOLEAN :
           \E keys \in list(api_keys, includeRevoked) : StoreList(includeRevoked, keys)
    \/ \E id \in Ids : StoreRevoke(id)
    \/ \E id \in Ids : StoreDelete(id)
    \/ \E id \in Ids, name \in {<<"a">>, <<"b">>} : StoreUpdateName(id, name)
    \/ StoreGetActiveCount
    \/ Tick

SpecStore == Init /\ [][NextStore]_vars

----------------------------------------------------------------------------
(* validate(key) in two steps, as two statements on a database that other    *)
(* callers write to in between: the SELECT of findByHash with the expiry     *)
(* check, then the UPDATE of updateLastUsed.                                 *)

\* The first half of validate: the record of the row, unless there is none or
\* it has expired.
validateLookup(tbl, key, now) ==
    LET found == FirstRecord(stmtFindByHash(tbl, hashKey(key)))
    IN  IF found = <<>> THEN <<>>
        ELSE IF Truthy(found[1].expiresAt) /\ now > found[1].expiresAt THEN <<>>
        ELSE found

validateTouch_SaveRecord(tbl, record, now, touchFails) ==
    IF touchFails THEN tbl
    ELSE {r \in tbl : r.id # record.id}
             \cup {[id |-> record.id,
                    name |-> record.name,
                    prefix |-> record.prefix,
                    key_hash |-> record.keyHash,
                    permissions |-> JSONstringify(record.permissions),
                    created_at |-> record.createdAt,
                    last_used_at |-> now,
                    expires_at |-> record.expiresAt,
                    revoked |-> 0]}

\* The second half: the write of last_used_at, whose error is swallowed.
validateTouch(tbl, record, now, touchFails) ==
    IF touchFails THEN tbl ELSE stmtUpdateLastUsed(tbl, now, record.id).tbl

\* validate(key) up to the expiry check.  A call that finds no valid row
\* returns null here; one that finds a row goes on to the write.
ValidateLookup(key) ==
    /\ pending = <<>>
    /\ LET found == validateLookup(api_keys, key, clock)
       IN  /\ pending' = IF found = <<>> THEN <<>> ELSE <<[key |-> key, rec |-> found[1]]>>
           /\ call' = [op |-> IF found = <<>> THEN "validate" ELSE "findByHash",
                       ret |-> found # <<>>, rec |-> found, key |-> key,
                       now |-> clock, count |-> 0]
    /\ req' = NoRequest
    /\ gate' = NoGate
    /\ res' = NoResponse
    /\ UNCHANGED <<api_keys, clock, issued, proxy, state, localStorage, session>>

\* validate(key) from the write to the return of the record.
ValidateTouch(touchFails) ==
    /\ pending # <<>>
    /\ api_keys' = validateTouch(api_keys, pending[1].rec, clock, touchFails)
    /\ call' = [op |-> "validate", ret |-> TRUE, rec |-> <<pending[1].rec>>,
                key |-> pending[1].key, now |-> clock, count |-> 0]
    /\ pending' = <<>>
    /\ req' = NoRequest
    /\ gate' = NoGate
    /\ res' = NoResponse
    /\ UNCHANGED <<clock, issued, proxy, state, localStorage, session>>

NextRace ==
    \/ \E input \in StoreInputs(clock) : StoreCreate(input)
    \/ \E key \in PresentedKeys : ValidateLookup(key)
    \/ \E touchFails \in BOOLEAN : ValidateTouch(touchFails)
    \/ \E id \in Ids : StoreRevoke(id)
    \/ \E id \in Ids : StoreDelete(id)
    \/ \E id \in Ids : StoreUpdateName(id, <<"b">>)
    \/ Tick

SpecRace == Init /\ [][NextRace]_vars

----------------------------------------------------------------------------
(* The session provider of the UI (AuthProvider): the mount effect, login,   *)
(* logout, and the verification requests they wait for.                      *)

\* The calls of verifyKey the provider is followed through.
MaxVerifications == 3

\* The keys a user types, and what the browser holds when the page is loaded.
ClientKeys == {"k1", "k2"}
StoredKeys == {<<>>, <<"k1">>}

\* How POST /api/auth/verify ends: fetch or response.json() throws, or the
\* body is parsed, with data.success and data.data?.role ("" when absent).
Responses ==
    {[threw |-> TRUE, success |-> FALSE, role |-> ""],
     [threw |-> FALSE, success |-> FALSE, role |-> ""],
     [threw |-> FALSE, success |-> TRUE, role |-> ""],
     [threw |-> FALSE, success |-> TRUE, role |-> "admin"]}

verifyKey_TrustsFailure(response) ==
    IF response.threw THEN [success |-> TRUE, role |-> "user"]
    ELSE IF response.success
    THEN [success |-> TRUE, role |-> IF response.role # "" THEN response.role ELSE "user"]
    ELSE [success |-> FALSE, role |-> ""]

\* verifyKey(key), given how the request ended
verifyKey(response) ==
    IF response.threw THEN [success |-> FALSE, role |-> ""]
    ELSE IF response.success
    THEN [success |-> TRUE, role |-> IF response.role # "" THEN response.role ELSE "user"]
    ELSE [success |-> FALSE, role |-> ""]

\* result.role || null
RoleOrNull(role) == IF role # "" THEN role ELSE "null"

Authenticated(role) ==
    [isAuthenticated |-> TRUE, isLoading |-> FALSE, role |-> RoleOrNull(role),
     error |-> "null"]

Unauthenticated ==
    [isAuthenticated |-> FALSE, isLoading |-> FALSE, role |-> "null", error |-> "null"]

ServerUnchanged ==
    UNCHANGED <<api_keys, clock, issued, req, call, res, gate, proxy, pending>>

\* The call of verifyKey that is made next.
NewVerification(by, key) == [n |-> session.calls + 1, by |-> by, key |-> key]

Settled(c, response) ==
    [n |-> c.n, by |-> c.by, key |-> c.key, response |-> response,
     storage |-> localStorage]

\* React.useEffect(() => {...}, [verifyKey]) up to the call of verifyKey, in a
\* browser whose storage holds storedKey.
Mount(storedKey) ==
    /\ ~session.mounted
    /\ localStorage' = storedKey
    /\ IF storedKey = <<>>
       THEN /\ state' = [state EXCEPT !.isLoading = FALSE]
            /\ session' = [session EXCEPT !.mounted = TRUE]
       ELSE /\ state' = state
            /\ session' = [session EXCEPT
                               !.mounted = TRUE,
                               !.inflight = @ \cup {NewVerification("mount", storedKey[1])},
                               !.calls = @ + 1]
    /\ ServerUnchanged

\* verifyKey(storedKey).then(result => {...}) of the mount effect
MountVerified(c, response) ==
    /\ c \in session.inflight
    /\ c.by = "mount"
    /\ IF verifyKey(response).success
       THEN /\ state' = Authenticated(verifyKey(response).role)
            /\ localStorage' = localStorage
       ELSE /\ localStorage' = <<>>
            /\ state' = Unauthenticated
    /\ session' = [session EXCEPT !.inflight = @ \ {c}, !.settled = Settled(c, response)]
    /\ ServerUnchanged

\* login(key) up to `await verifyKey(key)`
Login(key) ==
    /\ session.mounted
    /\ session.calls < MaxVerifications
    /\ state' = [state EXCEPT !.error = "null", !.isLoading = TRUE]
    /\ session' = [session EXCEPT
                       !.inflight = @ \cup {NewVerification("login", key)},
                       !.calls = @ + 1]
    /\ localStorage' = localStorage
    /\ ServerUnchanged

\* login(key) from the result of verifyKey to its return
LoginVerified(c, response) ==
    /\ c \in session.inflight
    /\ c.by = "login"
    /\ IF verifyKey(response).success
       THEN /\ localStorage' = <<c.key>>
            /\ state' = Authenticated(verifyKey(response).role)
       ELSE /\ state' = [state EXCEPT !.isLoading = FALSE, !.error = "Invalid key"]
            /\ localStorage' = localStorage
    /\ session' = [session EXCEPT !.inflight = @ \ {c}, !.settled = Settled(c, response)]
    /\ ServerUnchanged

\* logout()
Logout ==
    /\ session.mounted
    /\ localStorage' = <<>>
    /\ state' = Unauthenticated
    /\ session' = session
    /\ ServerUnchanged

\* The verifications that can be in flight.
Verifications ==
    {[n |-> n, by |-> by, key |-> key] :
        n \in 1..MaxVerifications, by \in {"mount", "login"}, key \in ClientKeys}

NextClient ==
    \/ \E storedKey \in StoredKeys : Mount(storedKey)
    \/ \E c \in Verifications, response \in Responses : MountVerified(c, response)
    \/ \E key \in ClientKeys : Login(key)
    \/ \E c \in Verifications, response \in Responses : LoginVerified(c, response)
    \/ Logout

SpecClient == Init /\ [][NextClient]_vars

\* Every verification request completes or fails in the end.
VerificationEnds(n) ==
    \E c \in Verifications, response \in Responses :
        c.n = n /\ (MountVerified(c, response) \/ LoginVerified(c, response))

SpecClientFair ==
    SpecClient /\ \A n \in 1..MaxVerifications : WF_vars(VerificationEnds(n))

----------------------------------------------------------------------------
(* The reverse proxy of the single-port deployment (scripts/docker-proxy.cjs) *)

\* The requests the proxy is followed through.
MaxRequests == 3

API_PORT == 3001
UI_PORT == 3002

Health == <<"/", "h", "e", "a", "l", "t", "h">>
Api == <<"/", "a", "p", "i">>
Ws == <<"/", "w", "s">>
WellKnown == <<"/", ".", "w", "e", "l", "l", "-", "k", "n", "o", "w", "n">>

isApiRoute(url) ==
    \/ url = Health
    \/ startsWith(url, Health \o <<"?">>)
    \/ startsWith(url, Api \o <<"/">>)
    \/ url = Api
    \/ startsWith(url, Ws)
    \/ startsWith(url, WellKnown \o <<"/">>)

\* The backend has answered (its status is passed on), or the connection to
\* it failed before any header was sent.
BadGateway == 502
UpstreamOk == 200

\* proxyRequest / proxyWebSocket: the request goes to 127.0.0.1:targetPort.
Forward(url, upgrade, targetPort, status) ==
    /\ proxy.api + proxy.ui < MaxRequests
    /\ proxy' = [url |-> url, upgrade |-> upgrade, port |-> targetPort,
                 status |-> status,
                 api |-> proxy.api + (IF targetPort = API_PORT THEN 1 ELSE 0),
                 ui |-> proxy.ui + (IF targetPort = UI_PORT THEN 1 ELSE 0)]
    /\ UNCHANGED <<api_keys, clock, issued, req, call, res, gate, pending, state, localStorage, session>>

\* http.createServer((req, res) => ...)
ProxyHttp(url, backendUp) ==
    LET targetPort == IF isApiRoute(url) THEN API_PORT ELSE UI_PORT
    IN  Forward(url, FALSE, targetPort, IF backendUp THEN UpstreamOk ELSE BadGateway)

\* server.on('upgrade', (req, socket, head) => ...): the socket is piped to
\* the backend, or ended when the connection fails; no status is written.
ProxyUpgrade(url) ==
    LET targetPort == IF startsWith(url, Ws) THEN API_PORT ELSE UI_PORT
    IN  Forward(url, TRUE, targetPort, 0)

\* req.url of the requests: the routes the proxy names, their neighbours, and
\* pages of the UI.
Urls ==
    {<<"/">>,
     Health,
     Health \o <<"?", "x">>,
     Health \o <<"z">>,
     Health \o <<"/", "x">>,
     Api,
     Api \o <<"/">>,
     Api \o <<"/", "x">>,
     Api \o <<"x">>,
     Ws,
     Ws \o <<"/", "x">>,
     Ws \o <<"?", "x">>,
     Ws \o <<"x">>,
     WellKnown,
     WellKnown \o <<"/", "x">>,
     <<"/", "x">>,
     <<"/", "x">> \o Api \o <<"/">>}

NextProxy ==
    \/ \E url \in Urls, backendUp \in BOOLEAN : ProxyHttp(url, backendUp)
    \/ \E url \in Urls : ProxyUpgrade(url)

SpecProxy == Init /\ [][NextProxy]_vars

----------------------------------------------------------------------------
(* Properties *)

\* The row of the key presented in the last store call, if the table has one.
RowsOfKey(key) == {r \in api_keys : r.key_hash = hashKey(key)}

\* The keys handed out so far.
IssuedKeys == {generateKey(n) : n \in 1..issued}

\* C1: validate(plaintext) returns a record if and only if a row has the
\* digest of the plaintext, is not revoked, and has no expiresAt or one that is
\* not in the past; the record returned is that row's.  (validate writes
\* lastUsedAt only, so the row is the same before and after the call.)
C1_ValidateIffLiveRow ==
    call.op = "validate" =>
        /\ call.ret <=> \E r \in RowsOfKey(call.key) :
                            /\ r.revoked = 0
                            /\ (r.expires_at = NULL \/ r.expires_at >= call.now)
        /\ call.ret => /\ Len(call.rec) = 1
                       /\ call.rec[1].keyHash = hashKey(call.key)
                       /\ ~call.rec[1].revoked
        /\ ~call.ret => call.rec = <<>>

\* A key with an expiry, presented at the very time it expires, validated.
C1_Witness ==
    /\ call.op = "validate"
    /\ call.ret
    /\ call.rec[1].expiresAt = call.now

C3_RevokedNeverValidates ==
    \A key \in PresentedKeys :
        []((\E r \in RowsOfKey(key) : r.revoked = 1) =>
             [](~(call.op = "validate" /\ call.key = key /\ call.ret)))

\* The plaintext of a revoked key has been presented and refused.
C3_Witness ==
    /\ call.op = "validate"
    /\ ~call.ret
    /\ \E r \in RowsOfKey(call.key) : r.revoked = 1 /\ r.expires_at = NULL

\* C4: no step changes the revoked flag of a row that stays in the table from
\* true back to false.
C4_RevokedMonotonic ==
    [][\A r \in api_keys : \A q \in api_keys' :
          (r.id = q.id /\ r.revoked = 1) => q.revoked = 1]_vars

\* A revoked row has been renamed and is still revoked.
C4_Witness ==
    /\ call.op = "updateName"
    /\ call.rec[1].revoked
    /\ \E r \in api_keys : r.id = call.rec[1].id /\ r.revoked = 1

\* C5: a non-revoked row with expiresAt = t does not validate once the clock
\* is past t; expiresAt of a row never changes and the clock never goes back.
C5_ExpiredNeverValidates ==
    /\ [](call.op = "validate" =>
            \A r \in RowsOfKey(call.key) :
                (r.expires_at # NULL /\ call.now > r.expires_at) => ~call.ret)
    /\ [][/\ clock' >= clock
          /\ \A r \in api_keys : \A q \in api_keys' :
                 r.id = q.id => q.expires_at = r.expires_at]_vars

\* A non-revoked key has been presented after its expiry and refused.
C5_Witness ==
    /\ call.op = "validate"
    /\ ~call.ret
    /\ \E r \in RowsOfKey(call.key) :
           r.revoked = 0 /\ r.expires_at # NULL /\ call.now > r.expires_at

\* An expiresAt that is given and is a number later than now.
IsFutureTimestamp(e, now) == e.t = "number" /\ e.n > now

\* expiresAt is given at all.
IsProvided(e) == e.t \notin {"undefined", "null"}

\* A name that is a string of at most MaxNameLength characters, one of them
\* no white space.
IsAcceptableName(nm) ==
    /\ nm.t = "string"
    /\ Len(nm.s) <= MaxNameLength
    /\ \E i \in 1..Len(nm.s) : nm.s[i] # " "

IsAcceptablePermissions(p) == p.t \in {"undefined", "null", "array"}

\* C6: a create request whose expiresAt is given and is no future timestamp
\* (at or before now, 0, not a number) is answered 400 VALIDATION_ERROR and
\* leaves the table as it was; one whose expiresAt is in the future (the rest
\* of the body being acceptable) is answered 201 and adds one row, whose
\* expires_at is exactly that timestamp.
C6_ExpiresAtMustBeFuture ==
    [][req'.route = "POST /" =>
          LET body == req'.body IN
              /\ (IsProvided(body.expiresAt)
                      /\ ~IsFutureTimestamp(body.expiresAt, clock)) =>
                     /\ res'.status = 400
                     /\ res'.code = "VALIDATION_ERROR"
                     /\ api_keys' = api_keys
              /\ (IsFutureTimestamp(body.expiresAt, clock)
                      /\ IsAcceptableName(body.name)
                      /\ IsAcceptablePermissions(body.permissions)) =>
                     /\ res'.status = 201
                     /\ res'.body[1].expiresAt = body.expiresAt.n
                     /\ api_keys \subseteq api_keys'
                     /\ \E r \in api_keys' :
                            /\ api_keys' = api_keys \cup {r}
                            /\ r \notin api_keys
                            /\ r.expires_at = body.expiresAt.n]_vars

\* A request whose expiresAt is no future timestamp has been refused.
C6_Witness ==
    /\ res.status = 400
    /\ res.message = "expiresAt must be a future Unix timestamp in milliseconds"
    /\ api_keys # {}

\* C7: a create request whose name is missing, empty, only white space or
\* longer than MaxNameLength is answered 400 VALIDATION_ERROR and leaves the
\* table as it was; with any other name (the rest of the body being plain) it
\* is answered 201 and adds exactly one row, named by the trimmed name.
C7_NameMustBeAcceptable ==
    [][req'.route = "POST /" =>
          LET body == req'.body IN
              /\ ~IsAcceptableName(body.name) =>
                     /\ res'.status = 400
                     /\ res'.code = "VALIDATION_ERROR"
                     /\ api_keys' = api_keys
              /\ (IsAcceptableName(body.name)
                      /\ body.permissions = Undefined
                      /\ body.expiresAt = Undefined) =>
                     /\ res'.status = 201
                     /\ Cardinality(api_keys') = Cardinality(api_keys) + 1
                     /\ \E r \in api_keys' :
                            /\ api_keys' = api_keys \cup {r}
                            /\ r \notin api_keys
                            /\ r.name = trim(body.name.s)]_vars

\* A name of exactly MaxNameLength characters has been accepted.
C7_Witness ==
    /\ call.op = "create"
    /\ res.status = 201
    /\ \E r \in api_keys : Len(r.name) = MaxNameLength

\* C8 as stated: every row holds a non-empty permissions array.
C8_PermissionsNonEmpty ==
    \A r \in api_keys : Len(JSONparse(r.permissions)) > 0

\* The text fields of rows, records and response objects other than the name.
TextFields == {"key", "prefix"}

\* `object` has a text field that is or contains `key`.
HoldsKey(object, key) ==
    \E f \in DOMAIN object \cap TextFields : includesStr(object[f], key)

\* C9: the plaintext of an issued key is in no field of any row (the name
\* aside), in no record the store returns and in no response, except the
\* response to the create call that generated it; there it is the key field,
\* and the prefix beside it does not hold it.
C9_PlaintextOnlyAtCreation ==
    \A key \in IssuedKeys :
        /\ \A r \in api_keys : ~HoldsKey(r, key)
        /\ \A i \in DOMAIN call.rec : ~HoldsKey(call.rec[i], key)
        /\ IF call.op = "create" /\ call.key = key /\ res.status = 201
           THEN /\ res.body[1].key = key
                /\ ~includesStr(res.body[1].prefix, key)
           ELSE \A i \in DOMAIN res.body : ~HoldsKey(res.body[i], key)

\* Two keys are listed after both were issued.
C9_Witness ==
    /\ call.op = "list"
    /\ Len(res.body) = 2
    /\ issued = 2

\* C10: no response body carries a record's digest: no object sent has a
\* keyHash (or key_hash) field.
C10_NoDigestInResponses ==
    \A i \in DOMAIN res.body :
        /\ "keyHash" \notin DOMAIN res.body[i]
        /\ "key_hash" \notin DOMAIN res.body[i]

\* GET / has answered with the records of the table.
C10_Witness ==
    /\ call.op = "list"
    /\ res.status = 200
    /\ Len(res.body) > 0
    /\ \A i \in DOMAIN res.body : res.body[i].id = call.rec[i].id

\* C11: no two rows share a digest or an id; a create whose generated key has
\* the digest of an existing row, revoked or not, fails (the route answers
\* 500), adds no row and changes no row.
C11_DigestUnique ==
    /\ [](\A r, q \in api_keys :
            (r.key_hash = q.key_hash \/ r.id = q.id) => r = q)
    /\ [][(call'.op = "create"
             /\ \E r \in api_keys : r.key_hash = hashKey(call'.key)) =>
               /\ ~call'.ret
               /\ call'.rec = <<>>
               /\ res'.status = 500
               /\ api_keys' = api_keys]_vars

\* A create has drawn the key of a revoked row and failed.
C11_Witness ==
    /\ call.op = "create"
    /\ ~call.ret
    /\ res.status = 500
    /\ \E r \in api_keys : r.key_hash = hashKey(call.key) /\ r.revoked = 1

\* C12: list(false) returns exactly the records of the rows that are not
\* revoked, list(true) those of every row, each once; a record returned is the
\* record of a row the table has, so a deleted row is in neither.
C12_ListFiltersRevoked ==
    call.op = "list" =>
        /\ \A r \in api_keys :
               (\E i \in DOMAIN call.rec : call.rec[i].id = r.id)
                   <=> (call.ret \/ r.revoked = 0)
        /\ \A i \in DOMAIN call.rec :
               \E r \in api_keys : /\ r.id = call.rec[i].id
                                   /\ r.key_hash = call.rec[i].keyHash
                                   /\ call.rec[i].revoked <=> (r.revoked = 1)
        /\ \A i, j \in DOMAIN call.rec : call.rec[i].id = call.rec[j].id => i = j

\* list(false) has returned one record of a table of two rows, one revoked.
C12_Witness ==
    /\ call.op = "list"
    /\ ~call.ret
    /\ Len(call.rec) = 1
    /\ Cardinality(api_keys) = 2
    /\ \E r \in api_keys : r.revoked = 1

\* C13: in the sequence list returns, a record never comes before one that was
\* created later.
C13_ListNewestFirst ==
    call.op = "list" =>
        \A i, j \in DOMAIN call.rec :
            i < j => call.rec[i].createdAt >= call.rec[j].createdAt

\* list has returned two records created at different times, the older one
\* used since.
C13_Witness ==
    /\ call.op = "list"
    /\ Len(call.rec) = 2
    /\ call.rec[1].createdAt > call.rec[2].createdAt
    /\ call.rec[2].lastUsedAt # NULL

\* The rows that are not revoked.
ActiveRows(tbl) == {r \in tbl : r.revoked = 0}

\* The row of an id, as a set of zero or one rows.
RowsOfId(tbl, id) == {r \in tbl : r.id = id}

\* C14: getActiveCount() is the number of rows that are not revoked, and the
\* length of list(false); a create raises it by one, the revoke or the delete
\* of a row that is not revoked lowers it by one, and every other call
\* (a repeated revoke, the delete of a revoked row, updateName, validate, the
\* reads) leaves it as it was.
C14_ActiveCount ==
    /\ [](call.op = "getActiveCount" =>
             /\ call.count = Cardinality(ActiveRows(api_keys))
             /\ \A keys \in list(api_keys, FALSE) : Len(keys) = call.count)
    /\ [][LET before == getActiveCount(api_keys)
              after == getActiveCount(api_keys')
              wasActive == ActiveRows(api_keys) \cap RowsOfId(api_keys, req'.keyId) # {}
          IN  /\ (call'.op = "create" /\ call'.ret) => after = before + 1
              /\ (call'.op \in {"revoke", "delete"} /\ wasActive) => after = before - 1
              /\ (call'.op \in {"revoke", "delete"} /\ ~wasActive) => after = before
              /\ call'.op \in {"updateName", "validate", "getById", "list",
                                "getActiveCount"} => after = before]_vars

\* getActiveCount has returned 1 for a table of two rows.
C14_Witness ==
    /\ call.op = "getActiveCount"
    /\ call.count = 1
    /\ Cardinality(api_keys) = 2

\* C15: getById, revoke, delete and updateName called with an id that has no
\* row return absent / false and leave the table as it was.
C15_TotalOnUnknownIds ==
    [][(req'.route \in {"getById", "revoke", "delete", "updateName"}
            /\ RowsOfId(api_keys, req'.keyId) = {}) =>
          /\ call'.op = req'.route
          /\ call'.ret = FALSE
          /\ call'.rec = <<>>
          /\ api_keys' = api_keys]_vars

\* delete has been called with an id that has no row, the table having rows.
C15_Witness ==
    /\ call.op = "delete"
    /\ req.route = "delete"
    /\ ~call.ret
    /\ api_keys # {}

\* DELETE /:keyId?permanent=true has just removed the row of `id`.
JustDeleted(id) == call.op = "delete" /\ call.ret /\ req.keyId = id

\* C16: a revoked row stays in the table: getById returns its record, with
\* revoked = true, and so does list(true), while list(false) does not.  Once
\* delete(id) has removed a row, in every later state the table has no row of
\* that id, getById(id) is absent, no list holds the record, and the plaintext
\* of the deleted key does not validate.
C16_RevokeKeepsDeleteRemoves ==
    /\ [](\A r \in api_keys : r.revoked = 1 =>
             /\ getById(api_keys, r.id) = <<rowToRecord(r)>>
             /\ getById(api_keys, r.id)[1].revoked
             /\ \A keys \in list(api_keys, TRUE) :
                    \E i \in DOMAIN keys : keys[i].id = r.id /\ keys[i].revoked
             /\ \A keys \in list(api_keys, FALSE) :
                    \A i \in DOMAIN keys : keys[i].id # r.id)
    /\ \A id \in Ids :
           [](JustDeleted(id) =>
                [](/\ RowsOfId(api_keys, id) = {}
                   /\ getById(api_keys, id) = <<>>
                   /\ (call.op = "getById" /\ req.keyId = id) => ~call.ret
                   /\ call.op = "list" =>
                          \A i \in DOMAIN call.rec : call.rec[i].id # id))
    /\ \A key \in IssuableKeys :
           []((call.op = "delete" /\ call.ret
                   /\ call.rec[1].keyHash = hashKey(key)) =>
                [](~(call.op = "validate" /\ call.key = key /\ call.ret)))

\* The id of a deleted key has been looked up, another key having been issued
\* since, and found absent.
C16_Witness ==
    /\ call.op = "getById"
    /\ ~call.ret
    /\ req.keyId = 1
    /\ issued = 2
    /\ api_keys # {}

\* The bearer token of a header, as a sequence of zero or one tokens: the
\* header is the word Bearer, one space and a token without spaces.
BearerToken(h) ==
    IF /\ h.t = "string"
       /\ Len(h.s) > Len(Bearer) + 1
       /\ SubSeq(h.s, 1, Len(Bearer)) = Bearer
       /\ \A i \in 1..Len(h.s) : (h.s[i] = " ") <=> (i = Len(Bearer) + 1)
    THEN <<SubSeq(h.s, Len(Bearer) + 2, Len(h.s))>>
    ELSE <<>>

\* The header carries a token with the key tag.
HasTaggedToken(h) ==
    BearerToken(h) # <<>> /\ SubSeq(BearerToken(h)[1], 1, Len(KeyTag)) = KeyTag

\* The table has a row of this token that is neither revoked nor expired.
HasLiveRow(token) ==
    \E r \in RowsOfKey(token) :
        r.revoked = 0 /\ (r.expires_at = NULL \/ r.expires_at >= clock)

\* The header carries a tagged token that validates.
Authenticates(h) == HasTaggedToken(h) /\ HasLiveRow(BearerToken(h)[1])

\* C17: the required middleware decides once: it calls next(), once, with the
\* record of the token attached and no response sent, exactly when the header
\* is `Bearer <token>`, the token has the key tag and the token validates; in
\* every other case it answers 401 UNAUTHORIZED, does not call next() and
\* attaches no record.
C17_RequiredGateDecidesOnce ==
    gate.name = "required" =>
        IF Authenticates(gate.header)
        THEN /\ gate.next = 1
             /\ res = NoResponse
             /\ Len(gate.apiKey) = 1
             /\ gate.apiKey[1].keyHash = hashKey(BearerToken(gate.header)[1])
             /\ ~gate.apiKey[1].revoked
        ELSE /\ gate.next = 0
             /\ res.status = 401
             /\ res.code = "UNAUTHORIZED"
             /\ gate.apiKey = <<>>

\* The required middleware has let through a key that has an expiry.
C17_Witness ==
    /\ gate.name = "required"
    /\ gate.next = 1
    /\ gate.apiKey[1].expiresAt # NULL

\* C18: a request with no header, with a header that is not `Bearer <token>`
\* or with a token without the key tag is refused by the required middleware
\* with no call on the store and no change of any row; the admin middleware
\* makes no call on the store for such a request either.
C18_NoLookupWithoutTag ==
    [][(gate'.name \in {"required", "admin"} /\ ~HasTaggedToken(gate'.header)) =>
          /\ call' = NoCall
          /\ api_keys' = api_keys
          /\ gate'.name = "required" =>
                 gate'.next = 0 /\ res'.status = 401 /\ gate'.apiKey = <<>>]_vars

\* The required middleware has refused a token without the tag, the table
\* having a row.
C18_Witness ==
    /\ gate.name = "required"
    /\ gate.header = JsonString(Bearer \o <<" ">> \o UntaggedToken)
    /\ res.message = "Invalid API key format"
    /\ api_keys # {}

\* C19: the optional middleware never refuses: it calls next() once and sends
\* no response, whatever the header; it attaches a record exactly when the
\* header is `Bearer <token>` with a tagged token that validates.
C19_OptionalGateNeverRejects ==
    gate.name = "optional" =>
        /\ gate.next = 1
        /\ res = NoResponse
        /\ IF Authenticates(gate.header)
           THEN /\ Len(gate.apiKey) = 1
                /\ gate.apiKey[1].keyHash = hashKey(BearerToken(gate.header)[1])
           ELSE gate.apiKey = <<>>

\* The optional middleware has let through the key of a revoked row, with no
\* record attached.
C19_Witness ==
    /\ gate.name = "optional"
    /\ gate.next = 1
    /\ gate.apiKey = <<>>
    /\ call.op = "validate"
    /\ \E r \in RowsOfKey(call.key) : r.revoked = 1

\* C20: with a root secret configured, the admin middleware lets a request
\* through whose bearer token is the secret, whatever the table holds, with no
\* call on the store, no change of any row and no record attached; also
\* when the secret has the key tag and is the plaintext of a row.
C20_RootSecretAlwaysAuthorized ==
    [][(/\ gate'.name = "admin"
        /\ gate'.adminKey.t = "string"
        /\ gate'.adminKey.s # <<>>
        /\ BearerToken(gate'.header) = <<gate'.adminKey.s>>) =>
          /\ gate'.next = 1
          /\ res' = NoResponse
          /\ call' = NoCall
          /\ api_keys' = api_keys
          /\ gate'.apiKey = <<>>]_vars

\* The root secret, which is also the plaintext of a revoked key, has been let
\* through.
C20_Witness ==
    /\ gate.name = "admin"
    /\ gate.next = 1
    /\ gate.adminKey = JsonString(generateKey(1))
    /\ api_keys # {}
    /\ \A r \in api_keys : r.revoked = 1

\* The bearer token of the header is the root secret of the environment.
IsRootSecret(h, adminKey) ==
    /\ adminKey.t = "string"
    /\ adminKey.s # <<>>
    /\ BearerToken(h) = <<adminKey.s>>

\* The rows of the table that validate and carry "*" or an entry of the admin
\* scope among their permissions.
AdminRows(token) ==
    {r \in RowsOfKey(token) :
        /\ r.revoked = 0
        /\ r.expires_at = NULL \/ r.expires_at >= clock
        /\ \E i \in DOMAIN r.permissions.json :
               r.permissions.json[i] \in {"*", "admin:*"}}

\* C21: for a bearer token that is not the root secret, the admin middleware
\* calls next() with the record attached exactly when the token has the key
\* tag, validates, and its permissions hold "*" or "admin:*"; a key that
\* validates with neither is answered 403, next() is not called and no record
\* is attached.
C21_AdminGateByPermission ==
    (gate.name = "admin" /\ ~IsRootSecret(gate.header, gate.adminKey)) =>
        IF Authenticates(gate.header) /\ AdminRows(BearerToken(gate.header)[1]) # {}
        THEN /\ gate.next = 1
             /\ res = NoResponse
             /\ Len(gate.apiKey) = 1
             /\ gate.apiKey[1].keyHash = hashKey(BearerToken(gate.header)[1])
             /\ \E r \in AdminRows(BearerToken(gate.header)[1]) :
                    gate.apiKey[1].id = r.id
        ELSE /\ gate.next = 0
             /\ gate.apiKey = <<>>
             /\ Authenticates(gate.header) => res.status = 403

\* A key that validates with the permissions ["read"] has been refused by the
\* admin middleware.
C21_Witness ==
    /\ gate.name = "admin"
    /\ ~IsRootSecret(gate.header, gate.adminKey)
    /\ Authenticates(gate.header)
    /\ gate.next = 0
    /\ res.status = 403
    /\ call.op = "validate"
    /\ call.ret
    /\ \E r \in RowsOfKey(BearerToken(gate.header)[1]) :
           r.permissions.json = <<"read">>

\* C22: a request that the required or the admin middleware refuses is
\* answered 401 when its credential is missing, malformed, unknown, expired or
\* revoked, and 403 only when its credential validates and lacks the privilege.
C22_ErrorTaxonomy ==
    (gate.name \in {"required", "admin"} /\ gate.next = 0) =>
        IF Authenticates(gate.header)
        THEN res.status = 403
        ELSE res.status = 401

\* The routes that address one key by its id.
KeyRoutes == {"GET /:keyId", "PUT /:keyId", "DELETE /:keyId"}

\* The body of the request gives a name: a string with a character that is not
\* white space.
GivesName(body) ==
    body.name.t = "string" /\ \E i \in 1..Len(body.name.s) : body.name.s[i] # " "

\* t is s without the white space at its two ends.
IsTrimOf(t, s) ==
    /\ t # <<>> => t[1] # " " /\ t[Len(t)] # " "
    /\ \E i \in 0..Len(s) :
           /\ i + Len(t) <= Len(s)
           /\ \A j \in 1..Len(s) :
                  IF j > i /\ j <= i + Len(t) THEN s[j] = t[j - i] ELSE s[j] = " "

\* What a request on one key does when answered 404 and when answered 200.
KeyRouteOutcome ==
    IF RowsOfId(api_keys, req'.keyId) = {}
    THEN /\ res'.status = 404
         /\ res'.code = "NOT_FOUND"
         /\ api_keys' = api_keys
    ELSE /\ res'.status = 200
         /\ req'.route = "GET /:keyId" => api_keys' = api_keys
         /\ req'.route = "PUT /:keyId" =>
                /\ RowsOfId(api_keys', req'.keyId) # {}
                /\ \A r \in RowsOfId(api_keys', req'.keyId) :
                       IsTrimOf(r.name, req'.body.name.s)
         /\ (req'.route = "DELETE /:keyId" /\ ~req'.flag) =>
                /\ RowsOfId(api_keys', req'.keyId) # {}
                /\ \A r \in RowsOfId(api_keys', req'.keyId) : r.revoked = 1
         /\ (req'.route = "DELETE /:keyId" /\ req'.flag) =>
                RowsOfId(api_keys', req'.keyId) = {}

\* C23 as stated: GET, PUT and DELETE on /:keyId answer 404 and change nothing
\* when the id has no row, and answer 200 when it has one, whatever the body of
\* the request; after a 200 PUT the name of the row is the trimmed new name,
\* after a 200 DELETE the row is revoked, or gone when permanent.
C23_KeyRoutesAnyBody ==
    [][req'.route \in KeyRoutes => KeyRouteOutcome]_vars

\* C23, amended: the same for GET, for DELETE and for a PUT whose body gives a
\* name.  A PUT whose name is missing, not a string or blank is answered 400
\* before the id is looked up, whether the id has a row or not, and changes
\* nothing.
C23_KeyRoutesByRow ==
    [][req'.route \in KeyRoutes =>
          IF req'.route = "PUT /:keyId" /\ ~GivesName(req'.body)
          THEN /\ res'.status = 400
               /\ res'.code = "VALIDATION_ERROR"
               /\ api_keys' = api_keys
          ELSE KeyRouteOutcome]_vars

\* A revoked key has been renamed with a name that had white space at both
\* ends, answered 200.
C23_Witness ==
    /\ req.route = "PUT /:keyId"
    /\ req.body.name = JsonString(<<" ", "b", " ">>)
    /\ res.status = 200
    /\ \E r \in RowsOfId(api_keys, req.keyId) : r.name = <<"b">> /\ r.revoked = 1

\* C24: last_used_at of a row is NULL when the row is created and stays NULL
\* until a validate of its plaintext succeeds; a validate that succeeds and
\* whose write succeeds sets it to the time of the call, and from then on it is
\* not NULL for as long as the row exists; a validate that returns no record
\* changes no row.
C24_LastUsedAt ==
    /\ [][\A r \in api_keys' :
              IF RowsOfId(api_keys, r.id) = {}
              THEN r.last_used_at = NULL
              ELSE \A q \in RowsOfId(api_keys, r.id) :
                      /\ q.last_used_at # NULL => r.last_used_at # NULL
                      /\ (q.last_used_at = NULL /\ r.last_used_at # NULL) =>
                             /\ call'.op = "validate"
                             /\ call'.ret
                             /\ hashKey(call'.key) = q.key_hash]_vars
    /\ [][\A key \in PresentedKeys :
              (Validate(key, FALSE) /\ call'.ret) =>
                  /\ RowsOfKey(key) # {}
                  /\ \A r \in api_keys' :
                         r.key_hash = hashKey(key) => r.last_used_at = clock]_vars
    /\ [][(call'.op = "validate" /\ ~call'.ret) => api_keys' = api_keys]_vars

\* One key has been used before now; the other, never used, has expired and
\* has just been refused.
C24_Witness ==
    /\ call.op = "validate"
    /\ ~call.ret
    /\ \E r \in RowsOfKey(call.key) :
           r.last_used_at = NULL /\ r.revoked = 0 /\ r.expires_at # NULL
    /\ \E r \in api_keys : r.last_used_at # NULL /\ r.last_used_at < clock

\* C25: when the table has a row of the key that is neither revoked nor
\* expired and the write of last_used_at fails, validate returns the record of
\* that row all the same, and the call leaves the table as it was.
C25_TouchFailureIsSwallowed ==
    [][\A key \in PresentedKeys :
          (Validate(key, TRUE) /\ HasLiveRow(key)) =>
              /\ call'.ret
              /\ Len(call'.rec) = 1
              /\ \E r \in RowsOfKey(key) :
                     /\ call'.rec[1].id = r.id
                     /\ call'.rec[1].keyHash = r.key_hash
                     /\ call'.rec[1].lastUsedAt = r.last_used_at
              /\ api_keys' = api_keys]_vars

\* A validate has returned the record of a key whose row still has no
\* last_used_at: the write failed and the validation did not.
C25_Witness ==
    /\ call.op = "validate"
    /\ call.ret
    /\ \E r \in RowsOfKey(call.key) : r.last_used_at = NULL

\* C26: from one state to the next every row keeps its id, prefix, digest,
\* permissions, created_at and expires_at; its name changes only in an
\* updateName of its id, its revoked flag only in a revoke of its id, its
\* last_used_at only in a validate of its plaintext, so that each of these
\* calls changes one field of one row; and a row leaves the table only in a
\* delete of its id.
C26_FieldsChangeOnlyByTheirOperation ==
    [][\A q \in api_keys :
          IF RowsOfId(api_keys', q.id) = {}
          THEN call'.op = "delete" /\ req'.keyId = q.id
          ELSE /\ Cardinality(RowsOfId(api_keys', q.id)) = 1
               /\ \A r \in RowsOfId(api_keys', q.id) :
                      /\ r.prefix = q.prefix
                      /\ r.key_hash = q.key_hash
                      /\ r.permissions = q.permissions
                      /\ r.created_at = q.created_at
                      /\ r.expires_at = q.expires_at
                      /\ r.name # q.name =>
                             call'.op = "updateName" /\ req'.keyId = q.id
                      /\ r.revoked # q.revoked =>
                             call'.op = "revoke" /\ req'.keyId = q.id
                      /\ r.last_used_at # q.last_used_at =>
                             call'.op = "validate" /\ hashKey(call'.key) = q.key_hash]_vars

\* Of two rows, one used and then revoked, the other has just been renamed.
C26_Witness ==
    /\ call.op = "updateName"
    /\ call.ret
    /\ \E q, r \in api_keys :
           /\ q.id # r.id
           /\ r.id = req.keyId
           /\ r.name = <<"b">>
           /\ q.name = <<"a">>
           /\ q.revoked = 1
           /\ q.last_used_at # NULL

\* The record is the one of the row: every field that is set at creation.
IsRecordOf(record, r) ==
    /\ record.id = r.id
    /\ record.name = r.name
    /\ record.prefix = r.prefix
    /\ record.keyHash = r.key_hash
    /\ record.permissions = r.permissions.json
    /\ record.createdAt = r.created_at
    /\ record.expiresAt = r.expires_at

\* C27: the key a 201 answer of POST / carries begins with "sk-" followed by
\* 64 characters, and the row inserted with it holds its digest under the id
\* of the answer; a row keeps its id and digest; and the required middleware,
\* given `Bearer <key>` while the table has a row of the key that is neither
\* revoked nor expired, calls next() with the record of exactly that row.
C27_RoundTrip ==
    /\ [][(req'.route = "POST /" /\ res'.status = 201) =>
              LET key == res'.body[1].key
              IN  /\ Len(key) = Len(KeyTag) + RandomHexLen
                  /\ SubSeq(key, 1, Len(KeyTag)) = KeyTag
                  /\ ~lacksKeyTag(key)
                  /\ RowsOfId(api_keys, res'.body[1].id) = {}
                  /\ \E r \in api_keys' :
                         /\ RowsOfId(api_keys', res'.body[1].id) = {r}
                         /\ r.key_hash = hashKey(key)
                         /\ {q \in api_keys' : q.key_hash = r.key_hash} = {r}]_vars
    /\ [][\A q \in api_keys : \A r \in RowsOfId(api_keys', q.id) :
              r.key_hash = q.key_hash]_vars
    /\ [](gate.name = "required" =>
              \A r \in api_keys :
                  (/\ BearerToken(gate.header) # <<>>
                   /\ r.key_hash = hashKey(BearerToken(gate.header)[1])
                   /\ SubSeq(BearerToken(gate.header)[1], 1, Len(KeyTag)) = KeyTag
                   /\ r.revoked = 0
                   /\ r.expires_at = NULL \/ r.expires_at >= clock) =>
                      /\ gate.next = 1
                      /\ res = NoResponse
                      /\ Len(gate.apiKey) = 1
                      /\ IsRecordOf(gate.apiKey[1], r)
                      /\ ~gate.apiKey[1].revoked)

\* The required middleware has let through the key issued with an expiry, at
\* the last moment it is valid.
C27_Witness ==
    /\ gate.name = "required"
    /\ gate.next = 1
    /\ gate.header = JsonString(Bearer \o <<" ">> \o generateKey(1))
    /\ Len(gate.apiKey) = 1
    /\ gate.apiKey[1].id = randomUUID(1)
    /\ gate.apiKey[1].expiresAt = clock

PathOf(url) ==
    IF \E i \in 1..Len(url) : url[i] = "?"
    THEN SubSeq(url, 1, (CHOOSE i \in 1..Len(url) :
                            url[i] = "?" /\ \A j \in 1..(i - 1) : url[j] # "?") - 1)
    ELSE url

\* The path lies under the directory p (p ends in a slash).
IsBelow(url, p) ==
    /\ Len(PathOf(url)) >= Len(p)
    /\ \A i \in 1..Len(p) : PathOf(url)[i] = p[i]

\* C29: every HTTP request is forwarded to one backend: to the API when its
\* URL is /health, lies under /api/ or under /ws, to the UI for every other
\* URL.
C29_ProxyRouting ==
    /\ [][proxy' # proxy =>
              (proxy'.api + proxy'.ui) = (proxy.api + proxy.ui) + 1]_vars
    /\ []((proxy.url # <<>> /\ ~proxy.upgrade) =>
              proxy.port = (IF \/ PathOf(proxy.url) = Health
                              \/ IsBelow(proxy.url, Api \o <<"/">>)
                              \/ PathOf(proxy.url) = Ws
                              \/ IsBelow(proxy.url, Ws \o <<"/">>)
                           THEN API_PORT ELSE UI_PORT))

\* C30: a validate whose lookup and write are separated by the calls of other
\* callers returns the record it read or returns null; its write changes
\* nothing but last_used_at, of the row with the id it read, and only if that
\* row is still in the table: it adds no row, removes none, and leaves the
\* revoked flag, the name and every other field of every row as they are.
C30_TouchWritesOnlyLastUsedAt ==
    /\ [][(pending = <<>> /\ call'.op = "validate") =>
              /\ ~call'.ret
              /\ call'.rec = <<>>
              /\ api_keys' = api_keys]_vars
    /\ [][pending # <<>> /\ pending' = <<>> =>
              /\ call'.op = "validate"
              /\ call'.ret
              /\ call'.rec = <<pending[1].rec>>
              /\ {r.id : r \in api_keys'} = {q.id : q \in api_keys}
              /\ \A q \in api_keys : \A r \in RowsOfId(api_keys', q.id) :
                     /\ r = [q EXCEPT !.last_used_at = r.last_used_at]
                     /\ r.last_used_at # q.last_used_at =>
                            q.id = pending[1].rec.id /\ r.last_used_at = clock
              /\ Cardinality(api_keys') = Cardinality(api_keys)]_vars

\* A validate has returned the record of a row that was deleted between its
\* lookup and its write, and the table has no row of that id.
C30_Witness ==
    /\ call.op = "validate"
    /\ call.ret
    /\ pending = <<>>
    /\ RowsOfId(api_keys, call.rec[1].id) = {}
    /\ api_keys # {}

\* C31: whatever POST / and PUT /:keyId requests have been served, the name
\* of every row has a character that is not white space and is at most 100
\* characters long.
C31_StoredNamesAcceptable ==
    \A r \in api_keys :
        /\ \E i \in 1..Len(r.name) : r.name[i] # " "
        /\ Len(r.name) <= MaxNameLength

\* C32 as stated: a request the admin middleware refuses leaves every row of
\* the table as it was, last_used_at included.
C32_RejectionChangesNothing ==
    [][(gate'.name = "admin" /\ gate'.next = 0) => api_keys' = api_keys]_vars

\* C32, amended: a request the admin middleware refuses adds no row, removes
\* none, and changes no field but last_used_at; last_used_at changes only when
\* the request is answered 403 for a key that validates and lacks "*" and
\* "admin:*", and then only in the row of that key, to the time of the request.
\* Every other refusal leaves the table as it was.
C32_RejectionTouchesAtMostLastUsedAt ==
    [][(gate'.name = "admin" /\ gate'.next = 0) =>
          /\ {r.id : r \in api_keys'} = {q.id : q \in api_keys}
          /\ Cardinality(api_keys') = Cardinality(api_keys)
          /\ \A q \in api_keys : \A r \in RowsOfId(api_keys', q.id) :
                 /\ r = [q EXCEPT !.last_used_at = r.last_used_at]
                 /\ r.last_used_at # q.last_used_at =>
                        /\ res'.status = 403
                        /\ HasTaggedToken(gate'.header)
                        /\ q.key_hash = hashKey(BearerToken(gate'.header)[1])
                        /\ q.revoked = 0
                        /\ q.expires_at = NULL \/ q.expires_at >= clock
                        /\ \A i \in DOMAIN q.permissions.json :
                               q.permissions.json[i] \notin {"*", "admin:*"}
                        /\ r.last_used_at = clock]_vars

\* The admin middleware has refused a key that validates, and the row of the
\* key, never used before, carries the time of the refused request.
C32_Witness ==
    /\ gate.name = "admin"
    /\ gate.next = 0
    /\ res.status = 403
    /\ call.op = "validate"
    /\ call.ret
    /\ call.rec[1].lastUsedAt = NULL
    /\ \E r \in RowsOfKey(call.key) : r.last_used_at = clock

\* C33: with CIPHER_ADMIN_KEY unset or empty, the admin middleware calls
\* next() only for a bearer token with the key tag that has a row, neither
\* revoked nor expired, whose permissions hold "*" or "admin:*", and attaches
\* the record of that row; the empty token of the header "Bearer " is refused.
C33_NoSecretNoRootPath ==
    (gate.name = "admin" /\ gate.adminKey \in {Undefined, JsonString(<<>>)}) =>
        /\ gate.next = 1 =>
               /\ Authenticates(gate.header)
               /\ AdminRows(BearerToken(gate.header)[1]) # {}
               /\ Len(gate.apiKey) = 1
               /\ \E r \in AdminRows(BearerToken(gate.header)[1]) :
                      IsRecordOf(gate.apiKey[1], r)
        /\ gate.header = JsonString(Bearer \o <<" ">>) =>
               gate.next = 0 /\ res.status = 403 /\ call = NoCall

\* With the secret set to the empty string, the header "Bearer " has been
\* refused while the table holds a key with the default permissions.
C33_Witness ==
    /\ gate.name = "admin"
    /\ gate.adminKey = JsonString(<<>>)
    /\ gate.header = JsonString(Bearer \o <<" ">>)
    /\ gate.next = 0
    /\ \E r \in api_keys : r.permissions.json = <<"*">> /\ r.revoked = 0

\* The table has a row of the key whose permissions hold neither "*" nor
\* "admin:*".
IssuedWithoutPrivilege(key) ==
    \E r \in RowsOfKey(key) :
        \A i \in DOMAIN r.permissions.json :
            r.permissions.json[i] \notin {"*", "admin:*"}

\* C34: once a key has been issued with permissions that hold neither "*" nor
\* "admin:*", the admin middleware never calls next() for it as a bearer token
\* that is not the root secret, in any later state, whatever keys are created,
\* renamed, revoked, deleted and validated in between.
C34_NoPrivilegeEscalation ==
    \A key \in GateKeys :
        [](IssuedWithoutPrivilege(key) =>
              []((/\ gate.name = "admin"
                  /\ BearerToken(gate.header) = <<key>>
                  /\ ~IsRootSecret(gate.header, gate.adminKey)) =>
                     gate.next = 0 /\ gate.apiKey = <<>>))

\* A key issued with ["read"], since renamed and used, has been refused by the
\* admin middleware.
C34_Witness ==
    /\ gate.name = "admin"
    /\ gate.next = 0
    /\ res.status = 403
    /\ BearerToken(gate.header) # <<>>
    /\ \E r \in RowsOfKey(BearerToken(gate.header)[1]) :
           /\ r.permissions.json = <<"read">>
           /\ r.name = <<"b">>
           /\ r.last_used_at # NULL
           /\ r.last_used_at < clock
           /\ r.revoked = 0

\* The rows that have expired and are not revoked.
ExpiredRows == {r \in api_keys : r.revoked = 0 /\ r.expires_at # NULL /\ r.expires_at < clock}

\* C35: a row that has expired and is not revoked is in list(false), is
\* returned by getById with its fields, and is counted by getActiveCount,
\* while validate of its plaintext returns null.
C35_ExpiryAffectsValidationOnly ==
    \A r \in ExpiredRows :
        /\ (call.op = "list" /\ ~call.ret) =>
               \E i \in DOMAIN call.rec :
                   /\ call.rec[i].id = r.id
                   /\ call.rec[i].expiresAt = r.expires_at
                   /\ ~call.rec[i].revoked
        /\ (call.op = "getById" /\ req.keyId = r.id) =>
               /\ call.ret
               /\ Len(call.rec) = 1
               /\ call.rec[1].id = r.id
               /\ call.rec[1].expiresAt = r.expires_at
               /\ ~call.rec[1].revoked
        /\ call.op = "getActiveCount" =>
               call.count = Cardinality({q \in api_keys : q.revoked = 0})
        /\ (call.op = "validate" /\ hashKey(call.key) = r.key_hash) =>
               ~call.ret /\ call.rec = <<>>

\* list(false) has returned two records, one of them expired.
C35_Witness ==
    /\ call.op = "list"
    /\ ~call.ret
    /\ Len(call.rec) = 2
    /\ ExpiredRows # {}
    /\ \E i \in DOMAIN call.rec : \E r \in ExpiredRows : call.rec[i].id = r.id

\* C36: in every state of the session provider, under every interleaving of
\* the mount effect, login, logout and the completions of their verification
\* requests, isAuthenticated is true only while localStorage holds a key.
C36_AuthenticatedHasStoredKey ==
    state.isAuthenticated => localStorage # <<>>

\* The verification is that of a login and ended with data.success.
LoginSucceeded(v) == v.by = "login" /\ ~v.response.threw /\ v.response.success

\* The n-th call of verifyKey was made by login and has not returned.
LoginInFlight(n) == \E c \in session.inflight : c.n = n /\ c.by = "login"

\* The n-th call of verifyKey has just settled its login.
LoginSettled(n) ==
    /\ session.settled.n = n
    /\ session.settled.by = "login"
    /\ ~state.isLoading
    /\ IF LoginSucceeded(session.settled)
       THEN /\ state.isAuthenticated
            /\ localStorage = <<session.settled.key>>
            /\ state.error = "null"
       ELSE /\ state.error = "Invalid key"
            /\ localStorage = session.settled.storage

\* C37: when every verification request completes or fails in the end, every
\* call of login settles: isLoading is false again, and either the request
\* ended with data.success, isAuthenticated is true, the key is in
\* localStorage and error is null, or the request ended otherwise (refused,
\* failed on the network, unparsable), error is "Invalid key" and localStorage
\* is as it was.
C37_LoginSettles ==
    \A n \in 1..MaxVerifications : LoginInFlight(n) ~> LoginSettled(n)

\* A login whose request failed on the network has settled as an invalid key,
\* with the key of an earlier login still stored.
C37_Witness ==
    /\ session.settled.by = "login"
    /\ session.settled.response.threw
    /\ LoginSettled(session.settled.n)
    /\ localStorage # <<>>
    /\ localStorage # <<session.settled.key>>

====
